---- MODULE Spec2Model ----
(***************************************************************************)
(* Balance settlement / payment reconciliation engine of the ledger         *)
(* (app/services/balance_service.py, class BalanceService) over the tables  *)
(* pd_balance_details (obligations), pd_payment_receipts (receipts) and     *)
(* pd_receipt_settlements (settlement links).                               *)
(*                                                                         *)
(* Every connection is opened with autocommit = True and no handler opens   *)
(* a transaction or takes a lock, so each SQL statement is one atomic,      *)
(* immediately durable step.  A settlement call is therefore a process      *)
(* whose steps are its SQL statements (with the Python code that follows    *)
(* each statement up to the next one).                                     *)
(*                                                                         *)
(* Amounts are integers counting 1/Scale of the currency's minor unit, so   *)
(* that a Decimal computed in Python can be finer than a DECIMAL(14, 2)     *)
(* column: a value written to such a column is rounded to a whole minor     *)
(* unit (StoreDecimal).  Decimal arithmetic itself is exact.                *)
(***************************************************************************)
EXTENDS Integers, Sequences, FiniteSets, Bags, TLC

(* ------------------------------ bounds -------------------------------- *)
NumWB == 3
MaxWeight == 1
MaxReceipts == 2
MaxItems == 2
MaxCalls == 2
MaxSeqCalls == 1
\* amounts are counted in 1/Scale of a minor unit (0.01)
Scale == 2
\* obligations generated before the weighbills of the catalogue
MaxOld == 9

(* ------------------------- program constants -------------------------- *)
OCR_STATUS_PENDING == 0
OCR_STATUS_CONFIRMED == 1
OCR_STATUS_VERIFIED == 2

PAY_STATUS_PENDING == 0
PAY_STATUS_PARTIAL == 1
PAY_STATUS_SETTLED == 2

\* The error strings the handlers return (ASCII renderings of the messages).
ErrReceiptNotFound == "receipt not found"
ErrAlreadySettled == "receipt already settled"
ErrNoOutstanding == "no outstanding obligations for this payee"
ErrInvalidOperation == "decimal.InvalidOperation"
ErrDuplicateEntry == "(1062, Duplicate entry for key 'uk_weighbill')"
ErrStore == "the store operation failed"

\* float('nan'): the one value of SettlementItem.amount (a float) that is not
\* a number.  Decimal(str(nan)) converts, every comparison with it raises.
\* It is a value apart from every amount; no arithmetic is ever done on it.
NaN == 0 - 999
\* None / empty string for an optional filter argument.
NoFilter == "none"
\* None for an optional number of a receipt request (fee, total_amount)
None == 0 - 998

VARIABLES weighbills, balances, receipts, links, call, ncalls,
          payment_details, payment_records

vars == <<weighbills, balances, receipts, links, call, ncalls,
          payment_details, payment_records>>

Procs == {1, 2}
WbIds == 1..NumWB

(* ---------------------- catalogue of source rows ---------------------- *)
\* pd_weighbills.contract_no, delivery_id and unit_price and the joined
\* pd_deliveries row (driver_name, driver_phone, payee) of weighbill w.
\* unit_price is in whole minor units per ton, net_weight in 1/Scale ton.
WbContract(w) == IF w % 2 = 1 THEN "HT1" ELSE "HT2"
WbDelivery(w) == ((w - 1) % 4) + 1
WbUnitPrice(w) == IF w % 2 = 0 THEN 4 ELSE IF w % 3 = 0 THEN 3 ELSE 2
DeliveryRow(d) ==
  CASE d = 1 -> [driver_name |-> "zhang", driver_phone |-> "p1", payee |-> ""]
    [] d = 2 -> [driver_name |-> "wang", driver_phone |-> "p2", payee |-> "zhang"]
    [] d = 3 -> [driver_name |-> "zhang", driver_phone |-> "p1", payee |-> ""]
    [] OTHER -> [driver_name |-> "li", driver_phone |-> "p3", payee |-> ""]
Contracts == {"HT1", "HT2"}
Names == {"zhang", "li"}
Phones == {"p1", "p2"}

(* ----------------------------- the store ------------------------------ *)
DB == [bal |-> balances, rcp |-> receipts, lnk |-> links]

NoResult == [success |-> FALSE, error |-> "", total_settled |-> 0,
             remaining_unused |-> 0, receipt_status |-> 0]

Idle == [pc |-> "idle", op |-> "none", receipt_id |-> 0, balance_items |-> <<>>,
         payee_name |-> "", driver_phone |-> "", i |-> 0, receipt_amount |-> 0,
         total_settled |-> 0, remaining_amount |-> 0, row |-> <<>>,
         settled_items |-> <<>>, rows |-> <<>>, generated |-> <<>>,
         result |-> NoResult]

RECURSIVE SumSeq(_)
SumSeq(s) == IF s = <<>> THEN 0 ELSE Head(s) + SumSeq(Tail(s))

RECURSIVE BagSum(_, _)
\* sum of settled_amount over the rows of bag b that are in set S
BagSum(b, S) ==
  IF S = {} THEN 0
  ELSE LET l == CHOOSE x \in S : TRUE
       IN  CopiesIn(l, b) * l.settled_amount + BagSum(b, S \ {l})

LinksOf(lnk, bid) == {l \in BagToSet(lnk) : l.balance_id = bid}
LinksOfReceipt(lnk, rid) == {l \in BagToSet(lnk) : l.receipt_id = rid}
LinkedSum(lnk, bid) == BagSum(lnk, LinksOf(lnk, bid))
ReceiptLinkedSum(lnk, rid) == BagSum(lnk, LinksOfReceipt(lnk, rid))

(* ------------------------ DECIMAL(14, 2) columns ---------------------- *)
Abs(x) == IF x < 0 THEN 0 - x ELSE x

\* variant: a column that keeps the value as given
StoreExact(x) == x

\* The value a DECIMAL(14, 2) column keeps of an exact decimal x: rounded to
\* a whole minor unit, a half going away from zero.
StoreDecimal(x) ==
  LET units == (2 * Abs(x) + Scale) \div (2 * Scale)
  IN  IF x < 0 THEN 0 - units * Scale ELSE units * Scale

(* ----------------------- obligation generation ------------------------ *)
\* payable = Decimal(str(net_weight)) * Decimal(str(unit_price))
PayableOf(wbs, w) == wbs[w].net_weight * WbUnitPrice(w)

\* receiver_name = payee if payee else driver_name
ReceiverName(w) ==
  LET d == DeliveryRow(WbDelivery(w))
  IN  IF d.payee # "" THEN d.payee ELSE d.driver_name

\* variant: the SELECT without w.ocr_status = '已确认'
SelectWeighbillsAnyStatus(wbs, bal, contract_no, delivery_id, weighbill_id) ==
  {w \in WbIds :
     /\ (contract_no = NoFilter \/ WbContract(w) = contract_no)
     /\ (delivery_id = 0 \/ WbDelivery(w) = delivery_id)
     /\ (weighbill_id = 0 \/ w = weighbill_id)
     /\ ~ \E b \in DOMAIN bal : bal[b].weighbill_id = w}

\* variant: the SELECT without its NOT EXISTS condition
SelectWeighbillsAgain(wbs, bal, contract_no, delivery_id, weighbill_id) ==
  {w \in WbIds :
     /\ wbs[w].confirmed
     /\ (contract_no = NoFilter \/ WbContract(w) = contract_no)
     /\ (delivery_id = 0 \/ WbDelivery(w) = delivery_id)
     /\ (weighbill_id = 0 \/ w = weighbill_id)}

\* The SELECT of generate_balance_details: confirmed weighbills that match
\* the given filters (a falsy filter is not applied) and have no obligation.
SelectWeighbills(wbs, bal, contract_no, delivery_id, weighbill_id) ==
  {w \in WbIds :
     /\ wbs[w].confirmed
     /\ (contract_no = NoFilter \/ WbContract(w) = contract_no)
     /\ (delivery_id = 0 \/ WbDelivery(w) = delivery_id)
     /\ (weighbill_id = 0 \/ w = weighbill_id)
     /\ ~ \E b \in DOMAIN bal : bal[b].weighbill_id = w}

\* The row the INSERT INTO pd_balance_details writes for weighbill w.
NewBalanceRow(wbs, w, now) ==
  [weighbill_id |-> w,
   driver_name |-> ReceiverName(w),
   driver_phone |-> DeliveryRow(WbDelivery(w)).driver_phone,
   payable_amount |-> StoreDecimal(PayableOf(wbs, w)),
   paid_amount |-> 0,
   balance_amount |-> StoreDecimal(PayableOf(wbs, w)),
   payment_status |-> PAY_STATUS_PENDING,
   created_at |-> now]

SetMin(S) == CHOOSE x \in S : \A y \in S : x <= y

RECURSIVE InsertBalances(_, _, _, _)
\* the loop over the selected rows, one INSERT each (ids are AUTO_INCREMENT)
InsertBalances(bal, wbs, S, now) ==
  IF S = {} THEN bal
  ELSE LET w == SetMin(S)
       IN  InsertBalances(Append(bal, NewBalanceRow(wbs, w, now)), wbs, S \ {w}, now)

(* --------------------------- receipt intake --------------------------- *)
\* variant: the total without the fee
TotalAmountWithoutFee(amount, fee, total_amount) ==
  IF total_amount = None THEN amount ELSE total_amount

\* total_amount = amount + fee if total_amount is None, else as supplied
TotalAmount(amount, fee, total_amount) ==
  IF total_amount = None THEN amount + fee ELSE total_amount

\* Decimal(str(None)) raises; amount is a required float of the request,
\* fee is Optional and may be sent as null
IntakeRaises(data) == data.fee = None

\* the amounts and status of the row INSERT INTO pd_payment_receipts writes
ReceiptRow(data, is_manual) ==
  [amount |-> StoreDecimal(data.amount),
   fee |-> StoreDecimal(data.fee),
   total_amount |-> StoreDecimal(TotalAmount(data.amount, data.fee, data.total_amount)),
   ocr_status |-> IF is_manual THEN OCR_STATUS_CONFIRMED ELSE OCR_STATUS_PENDING,
   is_manual_corrected |-> IF is_manual THEN 1 ELSE 0]

\* create_payment_receipt(data, image_path, is_manual) on store db
CreatePaymentReceiptOn(db, data, is_manual) ==
  IF IntakeRaises(data)
  THEN [db |-> db, success |-> FALSE, id |-> 0]
  ELSE [db |-> [db EXCEPT !.rcp = Append(@, ReceiptRow(data, is_manual))],
        success |-> TRUE, id |-> Len(db.rcp) + 1]

\* the columns the settlement calls read of the row of a request with
\* amount alone (fee 0, no total)
NewReceiptRow(amount, is_manual) ==
  LET r == ReceiptRow([amount |-> amount, fee |-> 0, total_amount |-> None], is_manual)
  IN  [amount |-> r.amount, ocr_status |-> r.ocr_status,
       is_manual_corrected |-> r.is_manual_corrected]

(* ------------------------- settlement helpers ------------------------- *)
\* return {"success": False, "error": ...}
Fail(c, e) ==
  [c EXCEPT !.pc = "done", !.i = 0, !.row = <<>>, !.receipt_amount = 0,
            !.total_settled = 0, !.remaining_amount = 0,
            !.result = [NoResult EXCEPT !.error = e]]

\* INSERT INTO pd_receipt_settlements ... (no unique key applied)
InsertLink(lnk, rid, bid, amt) ==
  lnk (+) SetToBag({[receipt_id |-> rid, balance_id |-> bid,
                     settled_amount |-> StoreDecimal(amt)]})

\* variant: the INSERT without its ON DUPLICATE KEY UPDATE clause, on a table
\* without uk_receipt_balance
InsertLinkNoKey(lnk, rid, bid, amt) == InsertLink(lnk, rid, bid, amt)

\* INSERT ... ON DUPLICATE KEY UPDATE settled_amount = amt, under
\* UNIQUE KEY uk_receipt_balance (receipt_id, balance_id)
UpsertLink(lnk, rid, bid, amt) ==
  LET dup == {l \in BagToSet(lnk) : l.receipt_id = rid /\ l.balance_id = bid}
  IN  IF dup = {} THEN InsertLink(lnk, rid, bid, amt)
      ELSE LET old == CHOOSE l \in dup : TRUE
           IN  InsertLink(lnk (-) SetToBag({old}), rid, bid, amt)

\* UPDATE pd_balance_details SET paid_amount, balance_amount, payment_status WHERE id
UpdateBalance(bal, bid, new_paid, new_balance, new_status) ==
  IF bid \in DOMAIN bal
  THEN [bal EXCEPT ![bid].paid_amount = StoreDecimal(new_paid),
                   ![bid].balance_amount = StoreDecimal(new_balance),
                   ![bid].payment_status = new_status]
  ELSE bal

\* UPDATE pd_payment_receipts SET ocr_status WHERE id
UpdateReceipt(rcp, rid, new_status) ==
  IF rid \in DOMAIN rcp THEN [rcp EXCEPT ![rid].ocr_status = new_status] ELSE rcp

(* ------------------ recalculate_balance (status rule) ----------------- *)
\* the if / elif / else that picks status in recalculate_balance
RecalculateStatus(payable, paid) ==
  IF paid <= 0 THEN PAY_STATUS_PENDING
  ELSE IF paid >= payable THEN PAY_STATUS_SETTLED
  ELSE PAY_STATUS_PARTIAL

(* ---------------- verify_payment (explicit settlement) ---------------- *)
\* variant: the requested amount applied as given
SettleAmountUnclamped(payable, paid, amount) == amount

\* settle_amount after "if settle_amount > remaining: settle_amount = remaining"
VerifySettleAmount(payable, paid, amount) ==
  LET remaining == payable - paid
  IN  IF amount > remaining THEN remaining ELSE amount

\* variant: no PARTIAL status
NewStatusAllOrNothing(payable, new_paid) ==
  IF new_paid >= payable THEN PAY_STATUS_SETTLED ELSE PAY_STATUS_PENDING

\* the if / elif / else that picks new_status in verify_payment
VerifyNewStatus(payable, new_paid) ==
  IF new_paid >= payable THEN PAY_STATUS_SETTLED
  ELSE IF new_paid > 0 THEN PAY_STATUS_PARTIAL
  ELSE PAY_STATUS_PENDING

\* variant: the receipt's status is not looked at
VerifyBeginAnyStatus(db, rid, items) ==
  LET c0 == [Idle EXCEPT !.op = "verify", !.receipt_id = rid, !.balance_items = items]
  IN  IF rid \notin DOMAIN db.rcp THEN Fail(c0, ErrReceiptNotFound)
      ELSE [c0 EXCEPT !.receipt_amount = db.rcp[rid].amount,
                      !.i = 1,
                      !.pc = IF items = <<>> THEN "finish" ELSE "select"]

\* variant: only a CONFIRMED receipt is accepted
VerifyBeginConfirmedOnly(db, rid, items) ==
  LET c0 == [Idle EXCEPT !.op = "verify", !.receipt_id = rid, !.balance_items = items]
  IN  IF rid \notin DOMAIN db.rcp THEN Fail(c0, ErrReceiptNotFound)
      ELSE IF db.rcp[rid].ocr_status # OCR_STATUS_CONFIRMED THEN Fail(c0, ErrAlreadySettled)
      ELSE [c0 EXCEPT !.receipt_amount = db.rcp[rid].amount,
                      !.i = 1,
                      !.pc = IF items = <<>> THEN "finish" ELSE "select"]

\* the receipt SELECT and the two early returns
VerifyBegin(db, rid, items) ==
  LET c0 == [Idle EXCEPT !.op = "verify", !.receipt_id = rid, !.balance_items = items]
  IN  IF rid \notin DOMAIN db.rcp THEN Fail(c0, ErrReceiptNotFound)
      ELSE IF db.rcp[rid].ocr_status = OCR_STATUS_VERIFIED THEN Fail(c0, ErrAlreadySettled)
      ELSE [c0 EXCEPT !.receipt_amount = db.rcp[rid].amount,
                      !.i = 1,
                      !.pc = IF items = <<>> THEN "finish" ELSE "select"]

\* move to the next item of the for loop, or leave the loop
VerifyAdvance(c) ==
  [c EXCEPT !.i = c.i + 1, !.row = <<>>,
            !.pc = IF c.i + 1 > Len(c.balance_items) THEN "finish" ELSE "select"]

\* the obligation SELECT of the current item, "continue" when there is no
\* row, and the comparison settle_amount > remaining (raises for NaN)
VerifySelect(db, c) ==
  LET item == c.balance_items[c.i]
  IN  IF item.balance_id \notin DOMAIN db.bal THEN VerifyAdvance(c)
      ELSE IF item.amount = NaN THEN Fail(c, ErrInvalidOperation)
      ELSE [c EXCEPT !.row = [payable |-> db.bal[item.balance_id].payable_amount,
                              paid |-> db.bal[item.balance_id].paid_amount],
                     !.pc = "update"]

VerifyItemSettle(c) ==
  VerifySettleAmount(c.row.payable, c.row.paid, c.balance_items[c.i].amount)
VerifyItemNewPaid(c) == c.row.paid + VerifyItemSettle(c)

\* the UPDATE of the obligation
VerifyUpdate(db, c) ==
  UpdateBalance(db.bal, c.balance_items[c.i].balance_id,
                VerifyItemNewPaid(c),
                c.row.payable - VerifyItemNewPaid(c),
                VerifyNewStatus(c.row.payable, VerifyItemNewPaid(c)))

\* the link upsert, total_settled += settle_amount, settled_items.append
VerifyLinkDb(db, c) ==
  UpsertLink(db.lnk, c.receipt_id, c.balance_items[c.i].balance_id, VerifyItemSettle(c))

VerifyLinkCall(c) ==
  VerifyAdvance([c EXCEPT
    !.total_settled = c.total_settled + VerifyItemSettle(c),
    !.settled_items = Append(c.settled_items,
        [balance_id |-> c.balance_items[c.i].balance_id,
         settled_amount |-> VerifyItemSettle(c),
         status |-> VerifyNewStatus(c.row.payable, VerifyItemNewPaid(c))])])

\* variant: SETTLED only when more than the receipt's amount was applied
ReceiptStatusStrict(total_settled, receipt_amount) ==
  IF total_settled > receipt_amount THEN OCR_STATUS_VERIFIED ELSE OCR_STATUS_CONFIRMED

\* new_receipt_status of verify_payment
VerifyReceiptStatus(total_settled, receipt_amount) ==
  IF total_settled >= receipt_amount THEN OCR_STATUS_VERIFIED ELSE OCR_STATUS_CONFIRMED

\* variant: the call stays at its last statement and never returns
VerifyFinishNoReturn(c) == c

\* the receipt UPDATE and the success return
VerifyFinishCall(c) ==
  [c EXCEPT !.pc = "done", !.i = 0, !.row = <<>>, !.receipt_amount = 0,
            !.total_settled = 0,
            !.result = [success |-> TRUE, error |-> "",
                        total_settled |-> c.total_settled,
                        remaining_unused |-> 0,
                        receipt_status |-> VerifyReceiptStatus(c.total_settled, c.receipt_amount)]]

(* -------------- batch_verify_by_payee (automatic settlement) ---------- *)
\* the receipt SELECT and the two early returns
BatchBegin(db, payee_name, rid, driver_phone) ==
  LET c0 == [Idle EXCEPT !.op = "batch", !.receipt_id = rid,
                         !.payee_name = payee_name, !.driver_phone = driver_phone]
  IN  IF rid \notin DOMAIN db.rcp THEN Fail(c0, ErrReceiptNotFound)
      ELSE IF db.rcp[rid].ocr_status = OCR_STATUS_VERIFIED THEN Fail(c0, ErrAlreadySettled)
      ELSE [c0 EXCEPT !.receipt_amount = db.rcp[rid].amount, !.pc = "select"]

\* variant: WHERE driver_name = %s [AND driver_phone = %s], any payment_status
BatchCandidatesAnyStatus(bal, payee_name, driver_phone) ==
  {b \in DOMAIN bal :
     /\ bal[b].driver_name = payee_name
     /\ (driver_phone = NoFilter \/ bal[b].driver_phone = driver_phone)}

\* variant: WHERE payment_status IN (0, 1) [AND driver_phone = %s], any payee
BatchCandidatesAnyPayee(bal, payee_name, driver_phone) ==
  {b \in DOMAIN bal :
     /\ bal[b].payment_status \in {PAY_STATUS_PENDING, PAY_STATUS_PARTIAL}
     /\ (driver_phone = NoFilter \/ bal[b].driver_phone = driver_phone)}

\* WHERE driver_name = %s AND payment_status IN (0, 1) [AND driver_phone = %s]
BatchCandidates(bal, payee_name, driver_phone) ==
  {b \in DOMAIN bal :
     /\ bal[b].driver_name = payee_name
     /\ bal[b].payment_status \in {PAY_STATUS_PENDING, PAY_STATUS_PARTIAL}
     /\ (driver_phone = NoFilter \/ bal[b].driver_phone = driver_phone)}

\* position of id b in the tie-break order tb
TiePos(tb, b) == CHOOSE k \in DOMAIN tb : tb[k] = b

\* variant: ORDER BY created_at DESC
RECURSIVE OrderByCreatedDesc(_, _, _)
OrderByCreatedDesc(bal, S, tb) ==
  IF S = {} THEN <<>>
  ELSE LET m == CHOOSE x \in S : \A y \in S \ {x} :
                   \/ bal[x].created_at > bal[y].created_at
                   \/ /\ bal[x].created_at = bal[y].created_at
                      /\ TiePos(tb, x) < TiePos(tb, y)
       IN  <<m>> \o OrderByCreatedDesc(bal, S \ {m}, tb)

\* ORDER BY created_at ASC; rows with equal created_at come in an order the
\* statement does not fix (tb)
RECURSIVE OrderByCreated(_, _, _)
OrderByCreated(bal, S, tb) ==
  IF S = {} THEN <<>>
  ELSE LET m == CHOOSE x \in S : \A y \in S \ {x} :
                   \/ bal[x].created_at < bal[y].created_at
                   \/ /\ bal[x].created_at = bal[y].created_at
                      /\ TiePos(tb, x) < TiePos(tb, y)
       IN  <<m>> \o OrderByCreated(bal, S \ {m}, tb)

\* one fetched row (id, payable_amount, paid_amount, balance_amount)
BatchRow(bal, b) ==
  [balance_id |-> b, payable |-> bal[b].payable_amount,
   paid |-> bal[b].paid_amount, balance |-> bal[b].balance_amount]

\* the candidate SELECT, the "no outstanding" return, and the loop head
BatchSelect(db, c, tb) ==
  LET ids == OrderByCreated(db.bal, BatchCandidates(db.bal, c.payee_name, c.driver_phone), tb)
      rows == [k \in DOMAIN ids |-> BatchRow(db.bal, ids[k])]
  IN  IF rows = <<>> THEN Fail(c, ErrNoOutstanding)
      ELSE [c EXCEPT !.balance_items = rows,
                     !.remaining_amount = c.receipt_amount,
                     !.i = 1,
                     !.pc = IF c.receipt_amount <= 0 THEN "finish" ELSE "update"]

Min2(a, b) == IF a <= b THEN a ELSE b

\* settle_amount = min(balance_d, remaining_amount)
BatchSettleAmount(balance, remaining_amount) == Min2(balance, remaining_amount)

\* the if / else that picks new_status in batch_verify_by_payee
BatchNewStatus(payable, new_paid) ==
  IF new_paid >= payable THEN PAY_STATUS_SETTLED ELSE PAY_STATUS_PARTIAL

BatchItemSettle(c) == BatchSettleAmount(c.balance_items[c.i].balance, c.remaining_amount)
BatchItemNewPaid(c) == c.balance_items[c.i].paid + BatchItemSettle(c)

\* the UPDATE of the obligation
BatchUpdate(db, c) ==
  UpdateBalance(db.bal, c.balance_items[c.i].balance_id,
                BatchItemNewPaid(c),
                c.balance_items[c.i].payable - BatchItemNewPaid(c),
                BatchNewStatus(c.balance_items[c.i].payable, BatchItemNewPaid(c)))

\* the link upsert
BatchLinkDb(db, c) ==
  UpsertLink(db.lnk, c.receipt_id, c.balance_items[c.i].balance_id, BatchItemSettle(c))

\* settled_items.append, remaining_amount -= settle_amount, next iteration
\* with its "if remaining_amount <= 0: break"
BatchLinkCall(c) ==
  LET rem == c.remaining_amount - BatchItemSettle(c)
  IN  [c EXCEPT
        !.settled_items = Append(c.settled_items,
            [balance_id |-> c.balance_items[c.i].balance_id,
             settled_amount |-> BatchItemSettle(c),
             status |-> BatchNewStatus(c.balance_items[c.i].payable, BatchItemNewPaid(c))]),
        !.remaining_amount = rem,
        !.i = c.i + 1,
        !.pc = IF c.i + 1 > Len(c.balance_items) \/ rem <= 0 THEN "finish" ELSE "update"]

\* variant: the receipt is SETTLED whatever is left of it
BatchReceiptAlwaysSettled(remaining_amount) == OCR_STATUS_VERIFIED

\* new_receipt_status of batch_verify_by_payee
BatchReceiptStatus(remaining_amount) ==
  IF remaining_amount <= 0 THEN OCR_STATUS_VERIFIED ELSE OCR_STATUS_CONFIRMED

\* the receipt UPDATE and the success return
BatchFinishCall(c) ==
  [c EXCEPT !.pc = "done", !.i = 0, !.receipt_amount = 0, !.remaining_amount = 0,
            !.balance_items = <<>>,
            !.result = [success |-> TRUE, error |-> "",
                        total_settled |-> c.receipt_amount - c.remaining_amount,
                        remaining_unused |-> IF c.remaining_amount > 0
                                             THEN c.remaining_amount ELSE 0,
                        receipt_status |-> BatchReceiptStatus(c.remaining_amount)]]

(* --------------- one statement of a call in flight -------------------- *)
\* The effect of the next SQL statement of call c (and of the Python code up
\* to the following statement) on the store and on the call's locals.
Step(db, c, tb) ==
  CASE c.op = "verify" /\ c.pc = "select" ->
         [db |-> db, c |-> VerifySelect(db, c)]
    [] c.op = "verify" /\ c.pc = "update" ->
         [db |-> [db EXCEPT !.bal = VerifyUpdate(db, c)], c |-> [c EXCEPT !.pc = "link"]]
    [] c.op = "verify" /\ c.pc = "link" ->
         [db |-> [db EXCEPT !.lnk = VerifyLinkDb(db, c)], c |-> VerifyLinkCall(c)]
    [] c.op = "verify" /\ c.pc = "finish" ->
         [db |-> [db EXCEPT !.rcp = UpdateReceipt(db.rcp, c.receipt_id,
                                VerifyReceiptStatus(c.total_settled, c.receipt_amount))],
          c |-> VerifyFinishCall(c)]
    [] c.op = "batch" /\ c.pc = "select" ->
         [db |-> db, c |-> BatchSelect(db, c, tb)]
    [] c.op = "batch" /\ c.pc = "update" ->
         [db |-> [db EXCEPT !.bal = BatchUpdate(db, c)], c |-> [c EXCEPT !.pc = "link"]]
    [] c.op = "batch" /\ c.pc = "link" ->
         [db |-> [db EXCEPT !.lnk = BatchLinkDb(db, c)], c |-> BatchLinkCall(c)]
    [] c.op = "batch" /\ c.pc = "finish" ->
         [db |-> [db EXCEPT !.rcp = UpdateReceipt(db.rcp, c.receipt_id,
                                BatchReceiptStatus(c.remaining_amount))],
          c |-> BatchFinishCall(c)]
    [] OTHER -> [db |-> db, c |-> c]

RECURSIVE Run(_, _, _)
\* a call run from its current statement to its return with nothing interleaved
Run(db, c, tb) ==
  IF c.pc \in {"done", "idle"} THEN [db |-> db, c |-> c]
  ELSE LET n == Step(db, c, tb) IN Run(n.db, n.c, tb)

\* verify_payment(receipt_id, balance_items) as one uninterrupted call
VerifyPayment(db, rid, items) == Run(db, VerifyBegin(db, rid, items), <<>>)

\* batch_verify_by_payee(payee_name, receipt_id, driver_phone) as one
\* uninterrupted call
BatchVerifyByPayee(db, payee_name, rid, driver_phone, tb) ==
  Run(db, BatchBegin(db, payee_name, rid, driver_phone), tb)

(* --------------- generation, statement by statement ------------------- *)
\* the rows of S in the order the SELECT returns them (it has no ORDER BY)
RECURSIVE FetchAll(_, _)
FetchAll(S, ord) ==
  IF S = {} THEN <<>>
  ELSE LET m == CHOOSE x \in S : \A y \in S \ {x} : TiePos(ord, x) < TiePos(ord, y)
       IN  <<m>> \o FetchAll(S \ {m}, ord)

\* the SELECT of generate_balance_details and rows = cur.fetchall()
GenerateSelect(wbs, bal, contract_no, delivery_id, weighbill_id, ord) ==
  LET rows == FetchAll(SelectWeighbills(wbs, bal, contract_no, delivery_id, weighbill_id), ord)
  IN  [Idle EXCEPT !.op = "generate", !.rows = rows, !.i = 1,
                   !.pc = IF rows = <<>> THEN "done" ELSE "insert",
                   !.result = [NoResult EXCEPT !.success = (rows = <<>>)]]

\* variant: INSERT INTO pd_balance_details on a table without uk_weighbill
InsertBalanceNoKey(bal, row) == [ok |-> TRUE, bal |-> Append(bal, row)]

\* INSERT INTO pd_balance_details under UNIQUE KEY uk_weighbill (weighbill_id):
\* a second row for the same weighbill is refused
InsertBalance(bal, row) ==
  IF \E b \in DOMAIN bal : bal[b].weighbill_id = row.weighbill_id
  THEN [ok |-> FALSE, bal |-> bal]
  ELSE [ok |-> TRUE, bal |-> Append(bal, row)]

\* one turn of the loop over rows: the INSERT and generated.append(...); the
\* call returns after the last row, or with the error the INSERT raised
GenerateInsert(bal, wbs, c, now) ==
  LET w == c.rows[c.i]
      ins == InsertBalance(bal, NewBalanceRow(wbs, w, now))
      last == c.i = Len(c.rows)
  IN  IF ins.ok
      THEN [bal |-> ins.bal,
            c |-> [c EXCEPT !.generated = Append(@, [balance_id |-> Len(ins.bal),
                                                     weighbill_id |-> w]),
                            !.i = @ + 1,
                            !.pc = IF last THEN "done" ELSE "insert",
                            !.result = [NoResult EXCEPT !.success = last]]]
      ELSE [bal |-> bal, c |-> Fail(c, ErrDuplicateEntry)]

\* CURRENT_TIMESTAMP of an INSERT: that of the row before it or a later one
InsertTimes(bal) ==
  IF bal = <<>> THEN {1} ELSE {bal[Len(bal)].created_at, bal[Len(bal)].created_at + 1}

\* CURRENT_TIMESTAMP of a generate call: the rows of one call share it, a
\* later call gets a later one.
Now(bal) == IF bal = <<>> THEN 1 ELSE bal[Len(bal)].created_at + 1

RECURSIVE GenerateRun(_, _, _)
\* a generate call run from its SELECT to its return with no other call in
\* between
GenerateRun(bal, wbs, c) ==
  IF c.pc # "insert" THEN [bal |-> bal, c |-> c]
  ELSE LET n == GenerateInsert(bal, wbs, c, Now(bal)) IN GenerateRun(n.bal, wbs, n.c)

(* ------------------------------ matching ------------------------------ *)
\* LIMIT 10
MatchLimit == 10

\* driver_name LIKE %payee_name%, for a pattern that is empty or a whole name
NameLike(payee_name, driver_name) == payee_name = "" \/ payee_name = driver_name

\* the WHERE clause of match_pending_payments; 0.01 is one minor unit
MatchCandidates(bal, payee_name, amount, now, date_range) ==
  {b \in DOMAIN bal :
     /\ bal[b].payment_status \in {PAY_STATUS_PENDING, PAY_STATUS_PARTIAL}
     /\ NameLike(payee_name, bal[b].driver_name)
     /\ Abs(bal[b].payable_amount - amount) <= Scale
     /\ bal[b].created_at >= now - date_range}

\* ORDER BY balance_amount DESC, created_at ASC; rows equal in both come in
\* an order the statement does not fix (tie: by id, upwards or downwards)
RECURSIVE MatchOrder(_, _, _)
MatchOrder(bal, S, tie) ==
  IF S = {} THEN <<>>
  ELSE LET m == CHOOSE x \in S : \A y \in S \ {x} :
                   \/ bal[x].balance_amount > bal[y].balance_amount
                   \/ /\ bal[x].balance_amount = bal[y].balance_amount
                      /\ bal[x].created_at < bal[y].created_at
                   \/ /\ bal[x].balance_amount = bal[y].balance_amount
                      /\ bal[x].created_at = bal[y].created_at
                      /\ IF tie = "asc" THEN x < y ELSE x > y
       IN  <<m>> \o MatchOrder(bal, S \ {m}, tie)

\* variant: the query without LIMIT 10
MatchPendingNoLimit(bal, payee_name, amount, now, date_range, tie) ==
  MatchOrder(bal, MatchCandidates(bal, payee_name, amount, now, date_range), tie)

\* match_pending_payments(payee_name, amount, date_range): the ids of the
\* rows it returns
MatchPendingPayments(bal, payee_name, amount, now, date_range, tie) ==
  LET all == MatchOrder(bal, MatchCandidates(bal, payee_name, amount, now, date_range), tie)
  IN  SubSeq(all, 1, Min2(Len(all), MatchLimit))

(* ------------------------------ inputs -------------------------------- *)
BalanceIds == 1..NumWB
ReceiptIds == 1..MaxReceipts
\* the largest payable amount a weighbill of the catalogue can give
MaxPayable == StoreDecimal(4 * MaxWeight)
\* amounts of whole minor units
WholeAmounts == {a \in 1..MaxPayable : StoreDecimal(a) = a}
ReceiptAmounts == 1..MaxPayable
Amounts == (0 - 1)..MaxPayable \cup {NaN}
ItemLists(bids, amts, n) ==
  UNION {[1..k -> [balance_id : bids, amount : amts]] : k \in 0..n}
TieBreaks == {tb \in [BalanceIds -> BalanceIds] :
                \A a, b \in BalanceIds : a # b => tb[a] # tb[b]}

(* ------------------------------- Init --------------------------------- *)
\* An empty ledger over a set of uploaded weighbills; a weighbill that is not
\* confirmed yet carries no reviewed weight.
Init ==
  /\ weighbills \in [WbIds -> [confirmed : BOOLEAN, net_weight : 0..MaxWeight]]
  /\ \A w \in WbIds : ~weighbills[w].confirmed => weighbills[w].net_weight = 0
  /\ balances = <<>>
  /\ receipts = <<>>
  /\ links = EmptyBag
  /\ call = [p \in Procs |-> Idle]
  /\ ncalls = 0
  /\ payment_details = [rows |-> <<>>, auto_increment |-> 1]
  /\ payment_records = <<>>

SetDB(d) ==
  /\ balances' = d.bal
  /\ receipts' = d.rcp
  /\ links' = d.lnk

(* ------------------------------ actions ------------------------------- *)
\* generate_balance_details(contract_no, delivery_id, weighbill_id)
GenerateBalanceDetails(contract_no, delivery_id, weighbill_id) ==
  /\ balances' = InsertBalances(balances, weighbills,
                   SelectWeighbills(weighbills, balances, contract_no, delivery_id, weighbill_id),
                   Now(balances))
  /\ UNCHANGED <<weighbills, receipts, links, call, ncalls, payment_details, payment_records>>

\* create_payment_receipt(data, image_path, is_manual)
CreatePaymentReceipt(amount, is_manual) ==
  /\ Len(receipts) < MaxReceipts
  /\ receipts' = Append(receipts, NewReceiptRow(amount, is_manual))
  /\ UNCHANGED <<weighbills, balances, links, call, ncalls, payment_details, payment_records>>

\* create_payment_receipt with the fee and total of the request
CreatePaymentReceiptRequest(data, is_manual) ==
  /\ Len(receipts) < MaxReceipts
  /\ SetDB(CreatePaymentReceiptOn(DB, data, is_manual).db)
  /\ UNCHANGED <<weighbills, call, ncalls, payment_details, payment_records>>

\* match_pending_payments: a read of pd_balance_details, answered at once
MatchPendingCall(payee_name, amount, now, date_range, tie) ==
  /\ call' = [call EXCEPT ![2] =
                [Idle EXCEPT !.op = "match", !.pc = "done",
                             !.rows = MatchPendingPayments(balances, payee_name, amount,
                                                           now, date_range, tie)]]
  /\ UNCHANGED <<weighbills, balances, receipts, links, ncalls, payment_details, payment_records>>

\* a request handler enters verify_payment and runs its receipt SELECT
VerifyPaymentCall(p, rid, items) ==
  /\ call[p].pc = "idle"
  /\ ncalls < MaxCalls
  /\ call' = [call EXCEPT ![p] = VerifyBegin(DB, rid, items)]
  /\ ncalls' = ncalls + 1
  /\ UNCHANGED <<weighbills, balances, receipts, links, payment_details, payment_records>>

\* a request handler enters batch_verify_by_payee and runs its receipt SELECT
BatchVerifyCall(p, payee_name, rid, driver_phone) ==
  /\ call[p].pc = "idle"
  /\ ncalls < MaxCalls
  /\ call' = [call EXCEPT ![p] = BatchBegin(DB, payee_name, rid, driver_phone)]
  /\ ncalls' = ncalls + 1
  /\ UNCHANGED <<weighbills, balances, receipts, links, payment_details, payment_records>>

\* the next statement of the call process p is in
CallStep(p, op, pc, tb) ==
  /\ call[p].op = op
  /\ call[p].pc = pc
  /\ LET n == Step(DB, call[p], tb)
     IN  /\ SetDB(n.db)
         /\ call' = [call EXCEPT ![p] = n.c]
  /\ UNCHANGED <<weighbills, ncalls, payment_details, payment_records>>

VerifySelectStep(p) == CallStep(p, "verify", "select", <<>>)
VerifyUpdateStep(p) == CallStep(p, "verify", "update", <<>>)
VerifyLinkStep(p) == CallStep(p, "verify", "link", <<>>)
VerifyFinishStep(p) == CallStep(p, "verify", "finish", <<>>)
BatchSelectStep(p, tb) == CallStep(p, "batch", "select", tb)
BatchUpdateStep(p) == CallStep(p, "batch", "update", <<>>)
BatchLinkStep(p) == CallStep(p, "batch", "link", <<>>)
BatchFinishStep(p) == CallStep(p, "batch", "finish", <<>>)

\* what stays of a returned call: which operation it was and its response
\* without the per-item list
Response(c) == [Idle EXCEPT !.pc = "done", !.op = c.op, !.result = c.result]

\* verify_payment run with no other call in flight
VerifyPaymentSeq(rid, items, budget) ==
  /\ ncalls < budget
  /\ LET r == VerifyPayment(DB, rid, items)
     IN  /\ SetDB(r.db)
         /\ call' = [call EXCEPT ![1] = Response(r.c)]
  /\ ncalls' = ncalls + 1
  /\ UNCHANGED <<weighbills, payment_details, payment_records>>

\* batch_verify_by_payee run with no other call in flight
BatchVerifySeq(payee_name, rid, driver_phone, tb, budget) ==
  /\ ncalls < budget
  /\ LET r == BatchVerifyByPayee(DB, payee_name, rid, driver_phone, tb)
     IN  /\ SetDB(r.db)
         /\ call' = [call EXCEPT ![1] = Response(r.c)]
  /\ ncalls' = ncalls + 1
  /\ UNCHANGED <<weighbills, payment_details, payment_records>>

\* generate_balance_details is entered: its SELECT
GenerateCall(p, contract_no, delivery_id, weighbill_id, ord) ==
  /\ call[p].pc = "idle"
  /\ call' = [call EXCEPT ![p] = GenerateSelect(weighbills, balances, contract_no,
                                                 delivery_id, weighbill_id, ord)]
  /\ UNCHANGED <<weighbills, balances, receipts, links, ncalls, payment_details, payment_records>>

\* the next INSERT of the generate call of process p (autocommit: it stays)
GenerateInsertStep(p) ==
  /\ call[p].op = "generate"
  /\ call[p].pc = "insert"
  /\ \E now \in InsertTimes(balances) :
       LET n == GenerateInsert(balances, weighbills, call[p], now)
       IN  /\ balances' = n.bal
           /\ call' = [call EXCEPT ![p] = n.c]
  /\ UNCHANGED <<weighbills, receipts, links, ncalls, payment_details, payment_records>>

\* the next INSERT raises (connection lost, lock wait timeout, ...): the
\* except clause returns the error; nothing is rolled back
GenerateFailStep(p) ==
  /\ call[p].op = "generate"
  /\ call[p].pc = "insert"
  /\ call' = [call EXCEPT ![p] = Fail(call[p], ErrStore)]
  /\ UNCHANGED <<weighbills, balances, receipts, links, ncalls, payment_details, payment_records>>

(* --------------------------- specifications --------------------------- *)
\* the response is delivered and the handler is free again
Return(p) ==
  /\ call[p].pc = "done"
  /\ call' = [call EXCEPT ![p] = Idle]
  /\ UNCHANGED <<weighbills, balances, receipts, links, ncalls, payment_details, payment_records>>

\* Concurrent request handlers over a ledger whose weighbills are all
\* confirmed at full weight: the ledger is populated, then settlement calls
\* run statement by statement in any interleaving.
InitConc ==
  /\ Init
  /\ \A w \in WbIds : weighbills[w].confirmed /\ weighbills[w].net_weight = MaxWeight

Next ==
  \/ ncalls = 0 /\ GenerateBalanceDetails(NoFilter, 0, 0)
  \/ ncalls = 0 /\ \E a \in ReceiptAmounts : CreatePaymentReceipt(a, TRUE)
  \/ \E p \in Procs, rid \in ReceiptIds, items \in ItemLists(BalanceIds, WholeAmounts, 1) :
       VerifyPaymentCall(p, rid, items)
  \/ \E p \in Procs, rid \in ReceiptIds : BatchVerifyCall(p, "zhang", rid, NoFilter)
  \/ \E p \in Procs : VerifySelectStep(p)
  \/ \E p \in Procs : VerifyUpdateStep(p)
  \/ \E p \in Procs : VerifyLinkStep(p)
  \/ \E p \in Procs : VerifyFinishStep(p)
  \/ \E p \in Procs, tb \in TieBreaks : BatchSelectStep(p, tb)
  \/ \E p \in Procs : BatchUpdateStep(p)
  \/ \E p \in Procs : BatchLinkStep(p)
  \/ \E p \in Procs : BatchFinishStep(p)
  \/ \E p \in Procs : Return(p)

Spec == InitConc /\ [][Next]_vars

\* One call at a time: the ledger is populated, then settlement calls run
\* one after the other, each from entry to return as one step.  The last
\* weighbill is still awaiting confirmation.
InitSeq == Init /\ ~weighbills[NumWB].confirmed

NextSeq ==
  \/ /\ ncalls = 0
     /\ \E cn \in Contracts \cup {NoFilter}, d \in 0..4, w \in 0..NumWB :
          GenerateBalanceDetails(cn, d, w)
  \/ /\ ncalls = 0
     /\ \E a \in ReceiptAmounts, m \in BOOLEAN : CreatePaymentReceipt(a, m)
  \/ \E rid \in ReceiptIds, items \in ItemLists(BalanceIds, Amounts, MaxItems) :
       VerifyPaymentSeq(rid, items, MaxSeqCalls)
  \/ \E n \in Names, rid \in ReceiptIds, ph \in Phones \cup {NoFilter}, tb \in TieBreaks :
       BatchVerifySeq(n, rid, ph, tb, MaxSeqCalls)

SpecSeq == InitSeq /\ [][NextSeq]_vars

\* Two calls one after the other, every requested amount a positive number
\* of whole minor units.
NextValid ==
  \/ /\ ncalls = 0
     /\ \E cn \in Contracts \cup {NoFilter}, d \in 0..4, w \in 0..NumWB :
          GenerateBalanceDetails(cn, d, w)
  \/ /\ ncalls = 0
     /\ \E a \in ReceiptAmounts, m \in BOOLEAN : CreatePaymentReceipt(a, m)
  \/ \E rid \in ReceiptIds, items \in ItemLists(BalanceIds, WholeAmounts, MaxItems) :
       VerifyPaymentSeq(rid, items, MaxCalls)
  \/ \E n \in Names, rid \in ReceiptIds, ph \in Phones \cup {NoFilter}, tb \in TieBreaks :
       BatchVerifySeq(n, rid, ph, tb, MaxCalls)

SpecValid == InitSeq /\ [][NextValid]_vars

\* Automatic settlement alone, over every ledger the weighbills can give.
NextBatch ==
  \/ /\ ncalls = 0
     /\ \E cn \in Contracts \cup {NoFilter}, d \in 0..4, w \in 0..NumWB :
          GenerateBalanceDetails(cn, d, w)
  \/ /\ ncalls = 0
     /\ \E a \in ReceiptAmounts, m \in BOOLEAN : CreatePaymentReceipt(a, m)
  \/ \E n \in Names, rid \in ReceiptIds, ph \in Phones \cup {NoFilter}, tb \in TieBreaks :
       BatchVerifySeq(n, rid, ph, tb, MaxCalls)

SpecBatch == Init /\ [][NextBatch]_vars

(* ======================= properties of the ledger ===================== *)
AllItemLists == ItemLists(BalanceIds, Amounts, MaxItems)
NumericItemLists == ItemLists(BalanceIds, Amounts \ {NaN}, MaxItems)
PositiveItemLists == ItemLists(BalanceIds, WholeAmounts, MaxItems)
PhoneFilters == Phones \cup {NoFilter}

\* the ledger is one a further settlement call is made on
CallsLeft == ncalls < MaxCalls

\* receipts a settlement call accepts
OpenReceipts(db) == {r \in DOMAIN db.rcp : db.rcp[r].ocr_status # OCR_STATUS_VERIFIED}

\* C1: every obligation has 0 <= paid_amount <= payable_amount in every
\* state reached by generation, explicit and automatic settlement calls.
C1_PaidWithinPayable ==
  \A b \in DOMAIN balances :
    /\ 0 <= balances[b].paid_amount
    /\ balances[b].paid_amount <= balances[b].payable_amount

\* C2: for every obligation paid_amount equals the sum of settled_amount over
\* the settlement links that reference it.
C2_PaidEqualsLinkedSum ==
  \A b \in DOMAIN balances : balances[b].paid_amount = LinkedSum(links, b)

\* C3: submitting the identical verify_payment call twice leaves obligations,
\* links and receipt status as submitting it once does (stated here for
\* lists of positive amounts, the claim's plainest case).
C3_VerifyIdempotent ==
  \A rid \in ReceiptIds, items \in PositiveItemLists :
    LET once == VerifyPayment(DB, rid, items)
        twice == VerifyPayment(once.db, rid, items)
    IN  twice.db = once.db

\* the call process p returned from, run as one uninterrupted call on db
Replay(db, c, tb) ==
  IF c.op = "verify" THEN VerifyPayment(db, c.receipt_id, c.balance_items).db
  ELSE BatchVerifyByPayee(db, c.payee_name, c.receipt_id, c.driver_phone, tb).db

\* the ledger as populated, before any settlement call
Unsettled ==
  [bal |-> [b \in DOMAIN balances |->
              [balances[b] EXCEPT !.paid_amount = 0,
                                  !.balance_amount = balances[b].payable_amount,
                                  !.payment_status = PAY_STATUS_PENDING]],
   rcp |-> [r \in DOMAIN receipts |->
              [receipts[r] EXCEPT !.ocr_status =
                 IF receipts[r].is_manual_corrected = 1
                 THEN OCR_STATUS_CONFIRMED ELSE OCR_STATUS_PENDING]],
   lnk |-> EmptyBag]

\* both handlers have run one call each and hold its response
BothReturned == ncalls = 2 /\ \A p \in Procs : call[p].pc = "done"

\* the obligations a returned call allocated to
Touched(c) == {c.settled_items[k].balance_id : k \in DOMAIN c.settled_items}

\* C4: whatever the interleaving of two settlement calls touching the same
\* obligation, the final obligations, links and receipt statuses are those of
\* running the two calls one after the other in some order.
C4_Serializable ==
  (BothReturned /\ Touched(call[1]) \cap Touched(call[2]) # {}) =>
    \E tb1, tb2 \in TieBreaks :
      \/ DB = Replay(Replay(Unsettled, call[1], tb1), call[2], tb2)
      \/ DB = Replay(Replay(Unsettled, call[2], tb2), call[1], tb1)

\* C5: a settlement call that returns an error has changed no obligation,
\* link or receipt row.
C5_ErrorAppliesNothing ==
  /\ \A rid \in ReceiptIds, items \in AllItemLists :
       LET r == VerifyPayment(DB, rid, items)
       IN  ~r.c.result.success => r.db = DB
  /\ \A n \in Names, rid \in ReceiptIds, ph \in PhoneFilters, tb \in TieBreaks :
       LET r == BatchVerifyByPayee(DB, n, rid, ph, tb)
       IN  ~r.c.result.success => r.db = DB

\* a receipt whose status is SETTLED (ocr_status = 2)
SettledReceipts == {r \in DOMAIN receipts : receipts[r].ocr_status = OCR_STATUS_VERIFIED}

\* C6: on a receipt whose status is SETTLED, verify_payment and
\* batch_verify_by_payee return the 'receipt already settled' error and
\* change no obligation, link or receipt.
C6_SettledReceiptRejects ==
  \A rid \in SettledReceipts :
    /\ \A items \in AllItemLists :
         LET r == VerifyPayment(DB, rid, items)
         IN  /\ ~r.c.result.success
             /\ r.c.result.error = ErrAlreadySettled
             /\ r.db = DB
    /\ \A n \in Names, ph \in PhoneFilters, tb \in TieBreaks :
         LET r == BatchVerifyByPayee(DB, n, rid, ph, tb)
         IN  /\ ~r.c.result.success
             /\ r.c.result.error = ErrAlreadySettled
             /\ r.db = DB

\* a call on a SETTLED receipt has returned the error
C6_Witness ==
  /\ SettledReceipts # {}
  /\ call[1].pc = "done"
  /\ call[1].op = "verify"
  /\ ~call[1].result.success
  /\ call[1].result.error = ErrAlreadySettled

\* the link rows of (receipt rid, obligation b)
LinkAmounts(lnk, rid, b) ==
  {l.settled_amount : l \in {x \in BagToSet(lnk) : x.receipt_id = rid /\ x.balance_id = b}}

\* C7: in explicit settlement a pair whose requested amount exceeds the
\* obligation's remaining = payable - paid is not rejected; exactly remaining
\* is added to paid_amount, recorded in the link and counted in total_settled.
C7_Clamping ==
  CallsLeft =>
  \A rid \in OpenReceipts(DB), items \in NumericItemLists :
    items # <<>> =>
      LET k == Len(items)
          b == items[k].balance_id
          before == VerifyPayment(DB, rid, SubSeq(items, 1, k - 1))
          after == VerifyPayment(DB, rid, items)
      IN  b \in DOMAIN balances =>
            LET remaining == before.db.bal[b].payable_amount - before.db.bal[b].paid_amount
            IN  items[k].amount > remaining =>
                  /\ after.c.result.success
                  /\ after.db.bal[b].paid_amount = before.db.bal[b].paid_amount + remaining
                  /\ after.db.bal[b].balance_amount =
                       after.db.bal[b].payable_amount - after.db.bal[b].paid_amount
                  /\ LinkAmounts(after.db.lnk, rid, b) = {remaining}
                  /\ after.c.result.total_settled =
                       before.c.result.total_settled + remaining

\* payable 0.02, paid 0.01, request 0.02 from a receipt of 0.02: paid 0.02,
\* balance 0, SETTLED, total_settled 0.01, receipt CONFIRMED
C7_Witness ==
  \E b \in DOMAIN balances, rid \in OpenReceipts(DB) :
    /\ balances[b].payable_amount = 2 * Scale
    /\ balances[b].paid_amount = Scale
    /\ receipts[rid].amount = 2 * Scale
    /\ LET r == VerifyPayment(DB, rid, <<[balance_id |-> b, amount |-> 2 * Scale]>>)
       IN  /\ r.c.result.success
           /\ r.db.bal[b].paid_amount = 2 * Scale
           /\ r.db.bal[b].balance_amount = 0
           /\ r.db.bal[b].payment_status = PAY_STATUS_SETTLED
           /\ LinkAmounts(r.db.lnk, rid, b) = {Scale}
           /\ r.c.result.total_settled = Scale
           /\ r.c.result.receipt_status = OCR_STATUS_CONFIRMED
           /\ r.db.rcp[rid].ocr_status = OCR_STATUS_CONFIRMED

\* an item list with a non-positive or non-numeric amount
HasInvalidAmount(items) ==
  \E k \in DOMAIN items : items[k].amount = NaN \/ items[k].amount <= 0

\* C8: an explicit settlement call containing a pair with a zero, negative
\* or non-numeric amount returns an error and leaves every obligation, link
\* and the receipt unchanged.
C8_InvalidAmountRejected ==
  \A rid \in OpenReceipts(DB), items \in AllItemLists :
    HasInvalidAmount(items) =>
      LET r == VerifyPayment(DB, rid, items)
      IN  ~r.c.result.success /\ r.db = DB

\* C9: automatic settlement walks the payee's PENDING/PARTIAL obligations in
\* ascending creation time and allocates min(balance, remaining receipt
\* value) to each: an obligation receives a non-zero allocation only if every
\* earlier-created outstanding obligation of the payee is brought to balance 0.
C9_Fifo ==
  \A n \in Names, rid \in OpenReceipts(DB), ph \in PhoneFilters, tb \in TieBreaks :
    LET r == BatchVerifyByPayee(DB, n, rid, ph, tb)
        cand == BatchCandidates(balances, n, ph)
        alloc(b) == r.db.bal[b].paid_amount - balances[b].paid_amount
    IN  r.c.result.success =>
          /\ \A b \in DOMAIN balances \ cand : r.db.bal[b] = balances[b]
          /\ \A b \in cand :
               /\ 0 <= alloc(b) /\ alloc(b) <= balances[b].balance_amount
               /\ r.db.bal[b].balance_amount = balances[b].balance_amount - alloc(b)
               /\ alloc(b) > 0 =>
                    \A e \in cand : balances[e].created_at < balances[b].created_at
                                      => r.db.bal[e].balance_amount = 0
          /\ r.c.result.total_settled =
               Min2(receipts[rid].amount,
                    SumSeq([k \in 1..Len(balances) |->
                              IF k \in cand THEN balances[k].balance_amount ELSE 0]))
          /\ SumSeq([k \in 1..Len(balances) |-> IF k \in cand THEN alloc(k) ELSE 0])
               = r.c.result.total_settled

\* obligations of 0.01, 0.02, 0.02 created in that order and a receipt of
\* 0.02: the first SETTLED, 0.01 of 0.02 on the second (PARTIAL, balance
\* 0.01), the third untouched, receipt SETTLED with nothing left over
C9_Witness ==
  /\ Len(balances) = 3
  /\ \A b \in 1..2 : balances[b].created_at < balances[b + 1].created_at
  /\ \A b \in 1..3 : balances[b].driver_name = "zhang"
  /\ <<balances[1].payable_amount, balances[2].payable_amount, balances[3].payable_amount>>
       = <<Scale, 2 * Scale, 2 * Scale>>
  /\ <<balances[1].paid_amount, balances[2].paid_amount, balances[3].paid_amount>>
       = <<Scale, Scale, 0>>
  /\ <<balances[1].payment_status, balances[2].payment_status, balances[3].payment_status>>
       = <<PAY_STATUS_SETTLED, PAY_STATUS_PARTIAL, PAY_STATUS_PENDING>>
  /\ balances[2].balance_amount = Scale
  /\ ncalls = 1
  /\ call[1].pc = "done" /\ call[1].op = "batch" /\ call[1].result.success
  /\ call[1].result.total_settled = 2 * Scale
  /\ call[1].result.remaining_unused = 0
  /\ call[1].result.receipt_status = OCR_STATUS_VERIFIED
  /\ \E r \in DOMAIN receipts :
       receipts[r].amount = 2 * Scale /\ receipts[r].ocr_status = OCR_STATUS_VERIFIED

\* C10: the status the settlement engine writes for an obligation is PENDING
\* when paid <= 0, PARTIAL when 0 < paid < payable and SETTLED when
\* paid >= payable, the payable = 0, paid = 0 case being PENDING.
C10_StatusDerivation ==
  \A b \in DOMAIN balances :
    LinksOf(links, b) # {} =>
      balances[b].payment_status =
        RecalculateStatus(balances[b].payable_amount, balances[b].paid_amount)

\* C11: the stored status of every obligation is the status derived from
\* its stored payable_amount and paid_amount (stated for obligations with
\* payable_amount > 0; payable_amount = 0 is the case of C10).
C11_StatusFollowsAmounts ==
  \A b \in DOMAIN balances :
    balances[b].payable_amount > 0 =>
      balances[b].payment_status =
        RecalculateStatus(balances[b].payable_amount, balances[b].paid_amount)

\* C12: every obligation has balance_amount = payable_amount - paid_amount.
C12_BalanceIsPayableMinusPaid ==
  \A b \in DOMAIN balances :
    balances[b].balance_amount = balances[b].payable_amount - balances[b].paid_amount

RECURSIVE ClampedTotal(_, _)
\* the sum, over the pairs of items whose obligation exists, of the requested
\* amount capped at the obligation's remaining payable_amount - paid_amount,
\* each pair seeing the amounts stored by the pairs before it
ClampedTotal(bal, items) ==
  IF items = <<>> THEN 0
  ELSE LET b == Head(items).balance_id
       IN  IF b \notin DOMAIN bal THEN ClampedTotal(bal, Tail(items))
           ELSE LET remaining == bal[b].payable_amount - bal[b].paid_amount
                    applied == Min2(Head(items).amount, remaining)
                IN  applied + ClampedTotal(
                      [bal EXCEPT ![b].paid_amount = StoreDecimal(bal[b].paid_amount + applied)],
                      Tail(items))

\* C13: after a successful explicit settlement call the receipt is SETTLED
\* exactly when the total_settled of that call is >= the receipt's amount and
\* CONFIRMED otherwise, and the returned total_settled is the sum of the
\* clamped amounts of the processed pairs.
C13_ReceiptStatusAfterVerify ==
  CallsLeft =>
  \A rid \in OpenReceipts(DB), items \in NumericItemLists :
    LET r == VerifyPayment(DB, rid, items)
        expected == IF r.c.result.total_settled >= receipts[rid].amount
                    THEN OCR_STATUS_VERIFIED ELSE OCR_STATUS_CONFIRMED
    IN  /\ r.c.result.success
        /\ r.c.result.total_settled = ClampedTotal(balances, items)
        /\ r.db.rcp[rid].ocr_status = expected
        /\ r.c.result.receipt_status = expected

\* an explicit settlement has applied exactly the receipt's amount and left
\* the receipt SETTLED
C13_Witness ==
  /\ Len(receipts) = 1
  /\ call[1].pc = "done" /\ call[1].op = "verify" /\ call[1].result.success
  /\ call[1].result.total_settled = receipts[1].amount
  /\ call[1].result.receipt_status = OCR_STATUS_VERIFIED
  /\ receipts[1].ocr_status = OCR_STATUS_VERIFIED
  /\ \E b \in DOMAIN balances : balances[b].paid_amount = receipts[1].amount

\* The scenario of C14 at the model's amounts: an unpaid obligation b of
\* 0.02 and an open receipt rid of 0.01, settled with the single pair
\* (b, 0.01); receipt_status is the status the receipt has afterwards.
ScenarioPartial(b, rid, receipt_status) ==
  ( /\ balances[b].payable_amount = 2 * Scale
    /\ balances[b].paid_amount = 0
    /\ receipts[rid].amount = Scale ) =>
    LET r == VerifyPayment(DB, rid, <<[balance_id |-> b, amount |-> Scale]>>)
    IN  /\ r.c.result.success
        /\ r.db.bal[b].paid_amount = Scale
        /\ r.db.bal[b].balance_amount = Scale
        /\ r.db.bal[b].payment_status = PAY_STATUS_PARTIAL
        /\ r.c.result.total_settled = Scale
        /\ r.db.rcp[rid].ocr_status = receipt_status
        /\ r.c.result.receipt_status = receipt_status

\* C14 (as amended): an obligation payable 5000, paid 0, settled from a
\* receipt of 3000 with the single pair (obligation, 3000) ends at paid 3000,
\* balance 2000, PARTIAL, and the receipt, its whole amount applied
\* (total_settled 3000 >= 3000), is SETTLED.
C14_ScenarioReceiptSettled ==
  \A b \in DOMAIN balances, rid \in OpenReceipts(DB) :
    ScenarioPartial(b, rid, OCR_STATUS_VERIFIED)

\* C14 (as stated): the same scenario leaves the receipt CONFIRMED.
C14_ScenarioReceiptConfirmed ==
  \A b \in DOMAIN balances, rid \in OpenReceipts(DB) :
    ScenarioPartial(b, rid, OCR_STATUS_CONFIRMED)

\* the scenario has been run: the obligation is half paid and PARTIAL, the
\* receipt fully applied
C14_Witness ==
  /\ Len(receipts) = 1 /\ Len(balances) = 1
  /\ receipts[1].amount = Scale
  /\ balances[1].payable_amount = 2 * Scale
  /\ balances[1].paid_amount = Scale
  /\ balances[1].balance_amount = Scale
  /\ balances[1].payment_status = PAY_STATUS_PARTIAL
  /\ call[1].pc = "done" /\ call[1].op = "verify" /\ call[1].result.success
  /\ call[1].result.total_settled = Scale
  /\ receipts[1].ocr_status = OCR_STATUS_VERIFIED
  /\ LinkAmounts(links, 1, 1) = {Scale}
  /\ ncalls = 1

\* the settled amounts of the per-item results a call returns
SettledAmounts(c) == [k \in DOMAIN c.settled_items |-> c.settled_items[k].settled_amount]

\* C15: automatic settlement stops when the obligation list is exhausted or
\* the receipt's value is consumed; the receipt is then SETTLED exactly when
\* its whole amount was allocated and CONFIRMED otherwise, total_settled plus
\* the unused remainder is the receipt amount, and total_settled is the sum of
\* the per-item settled amounts.
C15_BatchStopsAndReceiptStatus ==
  CallsLeft =>
  \A n \in Names, rid \in OpenReceipts(DB), ph \in PhoneFilters, tb \in TieBreaks :
    LET r == BatchVerifyByPayee(DB, n, rid, ph, tb)
        cand == BatchCandidates(balances, n, ph)
        expected == IF r.c.result.total_settled = receipts[rid].amount
                    THEN OCR_STATUS_VERIFIED ELSE OCR_STATUS_CONFIRMED
    IN  r.c.result.success =>
          /\ r.c.result.total_settled = SumSeq(SettledAmounts(r.c))
          /\ r.c.result.total_settled + r.c.result.remaining_unused = receipts[rid].amount
          /\ r.c.result.remaining_unused >= 0
          /\ r.db.rcp[rid].ocr_status = expected
          /\ r.c.result.receipt_status = expected
          /\ r.c.result.remaining_unused > 0 => Touched(r.c) = cand
          /\ Len(r.c.settled_items) <= Cardinality(cand)

\* an automatic settlement has run out of obligations with part of the
\* receipt unused: the receipt stays CONFIRMED
C15_Witness ==
  /\ ncalls = 1
  /\ call[1].pc = "done" /\ call[1].op = "batch" /\ call[1].result.success
  /\ call[1].result.total_settled > 0
  /\ call[1].result.remaining_unused > 0
  /\ call[1].result.receipt_status = OCR_STATUS_CONFIRMED
  /\ \E r \in DOMAIN receipts :
       /\ receipts[r].ocr_status = OCR_STATUS_CONFIRMED
       /\ receipts[r].amount = call[1].result.total_settled + call[1].result.remaining_unused
  /\ \A b \in DOMAIN balances :
       balances[b].driver_name = "zhang" => balances[b].balance_amount = 0

\* the payee (under the phone filter) has a PENDING or PARTIAL obligation
HasOutstanding(n, ph) ==
  \E b \in DOMAIN balances :
    /\ balances[b].driver_name = n
    /\ ph \in {NoFilter, balances[b].driver_phone}
    /\ balances[b].payment_status # PAY_STATUS_SETTLED

\* C16: automatic settlement for a payee (and optional phone filter) with no
\* PENDING or PARTIAL obligation returns the "no outstanding obligations"
\* error and leaves every obligation, link and the receipt unchanged.
C16_NoOutstandingRejected ==
  CallsLeft =>
  \A n \in Names, rid \in OpenReceipts(DB), ph \in PhoneFilters, tb \in TieBreaks :
    ~HasOutstanding(n, ph) =>
      LET r == BatchVerifyByPayee(DB, n, rid, ph, tb)
      IN  /\ ~r.c.result.success
          /\ r.c.result.error = ErrNoOutstanding
          /\ r.db = DB

\* an automatic settlement was refused for lack of outstanding obligations
\* although the payee has obligations, all of them SETTLED, and the receipt
\* is still open
C16_Witness ==
  /\ call[1].pc = "done" /\ call[1].op = "batch"
  /\ ~call[1].result.success
  /\ call[1].result.error = ErrNoOutstanding
  /\ \E b \in DOMAIN balances : balances[b].driver_name = "zhang"
  /\ ~HasOutstanding("zhang", NoFilter)
  /\ \E r \in DOMAIN receipts : receipts[r].ocr_status = OCR_STATUS_CONFIRMED

\* number of link rows of (receipt rid, obligation b)
LinkCount(lnk, rid, b) ==
  LET S == {l \in BagToSet(lnk) : l.receipt_id = rid /\ l.balance_id = b}
      ones == [l \in S |-> CopiesIn(l, lnk)]
      RECURSIVE Add(_)
      Add(T) == IF T = {} THEN 0
                ELSE LET l == CHOOSE x \in T : TRUE IN ones[l] + Add(T \ {l})
  IN  Add(S)

\* C17: every (receipt, obligation) pair has at most one settlement link in
\* every reachable state, and a settlement of a pair that already has a link
\* leaves one link whose settled_amount is the amount the latest call applied.
C17_OneLinkPerPair ==
  /\ \A rid \in ReceiptIds, b \in BalanceIds : LinkCount(links, rid, b) <= 1
  /\ CallsLeft =>
     \A rid \in OpenReceipts(DB), b \in DOMAIN balances, a \in WholeAmounts :
       LinkCount(links, rid, b) = 1 =>
         LET r == VerifyPayment(DB, rid, <<[balance_id |-> b, amount |-> a]>>)
         IN  /\ r.c.result.success
             /\ LinkCount(r.db.lnk, rid, b) = 1
             /\ LinkAmounts(r.db.lnk, rid, b) = {r.c.result.total_settled}
             /\ r.db.bal[b].paid_amount = balances[b].paid_amount + r.c.result.total_settled

\* a pair was settled twice: its single link holds the amount of the second
\* call only, less than what the obligation was paid in all
C17_Witness ==
  /\ ncalls = 2
  /\ call[1].pc = "done" /\ call[1].op = "verify" /\ call[1].result.success
  /\ call[1].result.total_settled > 0
  /\ \E rid \in DOMAIN receipts, b \in DOMAIN balances :
       /\ LinkCount(links, rid, b) = 1
       /\ LinkAmounts(links, rid, b) = {call[1].result.total_settled}
       /\ balances[b].paid_amount > call[1].result.total_settled
       /\ \A r2 \in DOMAIN receipts : r2 # rid => LinkCount(links, r2, b) = 0

(* ------------------------ generation alone --------------------------- *)
\* Concurrent generate calls, INSERT by INSERT, over every set of confirmed
\* weighbills; an INSERT may fail.
InitGen ==
  /\ Init
  /\ \A w \in WbIds : weighbills[w].confirmed => weighbills[w].net_weight = MaxWeight

NextGen ==
  \/ \E p \in Procs, cn \in Contracts \cup {NoFilter}, d \in 0..1, w \in {0, NumWB},
        ord \in TieBreaks : GenerateCall(p, cn, d, w, ord)
  \/ \E p \in Procs : GenerateInsertStep(p)
  \/ \E p \in Procs : GenerateFailStep(p)
  \/ \E p \in Procs : Return(p)

SpecGen == InitGen /\ [][NextGen]_vars

\* the obligations of weighbill w
ObligationsOf(bal, w) == {b \in DOMAIN bal : bal[b].weighbill_id = w}

\* weighbill w passes the filters of a generate call
MatchesFilter(w, cn, d, wid) ==
  /\ cn \in {NoFilter, WbContract(w)}
  /\ d \in {0, WbDelivery(w)}
  /\ wid \in {0, w}

\* C18: after any interleaving of generate calls with any filters every
\* weight record has at most one obligation; a run over records that all have
\* an obligation already creates nothing; no step of a generate call changes
\* or removes an obligation that exists; two concurrent runs that selected the
\* same record do not both create one.
C18_ExactlyOnce ==
  /\ [](\A w \in WbIds : Cardinality(ObligationsOf(balances, w)) <= 1)
  /\ [](\A cn \in Contracts \cup {NoFilter}, d \in 0..4, wid \in 0..NumWB, ord \in TieBreaks :
          (\A w \in WbIds : weighbills[w].confirmed /\ MatchesFilter(w, cn, d, wid)
                              => ObligationsOf(balances, w) # {})
          => LET r == GenerateRun(balances, weighbills,
                        GenerateSelect(weighbills, balances, cn, d, wid, ord))
             IN  r.bal = balances /\ r.c.generated = <<>> /\ r.c.result.success)
  /\ [][\A b \in DOMAIN balances :
          b \in DOMAIN balances' /\ balances'[b] = balances[b]]_vars
  /\ [](\A p, q \in Procs :
          \A k \in DOMAIN call[p].generated, l \in DOMAIN call[q].generated :
            call[p].generated[k].weighbill_id = call[q].generated[l].weighbill_id
              => p = q /\ k = l)

\* two concurrent runs selected the same weight record; one created its
\* obligation and the other was refused by the unique key
C18_Witness ==
  /\ call[1].op = "generate" /\ call[1].pc = "done"
  /\ call[1].result.error = ErrDuplicateEntry
  /\ call[2].op = "generate" /\ call[2].generated # <<>>
  /\ \E k \in DOMAIN call[2].generated :
       /\ call[2].generated[k].weighbill_id = call[1].rows[1]
       /\ Cardinality(ObligationsOf(balances, call[1].rows[1])) = 1

\* amount is raw rounded to the minor unit, a half rounded up
IsRoundedHalfUp(amount, raw) ==
  /\ amount % Scale = 0
  /\ 2 * amount - Scale <= 2 * raw
  /\ 2 * raw < 2 * amount + Scale

\* row is a freshly generated obligation of weighbill w
IsFreshObligation(row, w) ==
  /\ row.weighbill_id = w
  /\ weighbills[w].confirmed
  /\ row.paid_amount = 0
  /\ row.balance_amount = row.payable_amount
  /\ IsRoundedHalfUp(row.payable_amount, weighbills[w].net_weight * WbUnitPrice(w))
  /\ row.payment_status = PAY_STATUS_PENDING

\* C19: generation creates obligations only for weight records that are
\* confirmed and match the given filter; each starts with paid_amount = 0,
\* balance_amount = payable_amount = unit_price x net_weight (rounded to the
\* minor unit) and status PENDING; unconfirmed records never get one.
C19_GeneratedObligations ==
  /\ \A b \in DOMAIN balances : IsFreshObligation(balances[b], balances[b].weighbill_id)
  /\ \A w \in WbIds : ~weighbills[w].confirmed => ObligationsOf(balances, w) = {}
  /\ \A cn \in Contracts \cup {NoFilter}, d \in 0..4, wid \in 0..NumWB, ord \in TieBreaks :
       LET r == GenerateRun(balances, weighbills,
                            GenerateSelect(weighbills, balances, cn, d, wid, ord))
       IN  /\ r.c.result.success
           /\ SubSeq(r.bal, 1, Len(balances)) = balances
           /\ \A b \in DOMAIN r.bal \ DOMAIN balances :
                LET w == r.bal[b].weighbill_id
                IN  MatchesFilter(w, cn, d, wid) /\ IsFreshObligation(r.bal[b], w)
           /\ \A w \in WbIds :
                weighbills[w].confirmed /\ MatchesFilter(w, cn, d, wid)
                  => ObligationsOf(r.bal, w) # {}

\* a filtered call has created the obligation of the one confirmed record of
\* its contract, payable rounded up from a half minor unit, while a record
\* awaiting confirmation and a confirmed one outside the filter have none
C19_Witness ==
  /\ call[1].op = "generate" /\ call[1].pc = "done" /\ call[1].result.success
  /\ Len(call[1].generated) = 1
  /\ Len(balances) = 1
  /\ ~weighbills[1].confirmed /\ weighbills[2].confirmed /\ weighbills[3].confirmed
  /\ balances[1].weighbill_id = 3
  /\ weighbills[3].net_weight * WbUnitPrice(3) % Scale # 0
  /\ balances[1].payable_amount > weighbills[3].net_weight * WbUnitPrice(3)
  /\ balances[1].payment_status = PAY_STATUS_PENDING

\* the generate call of process p has returned an error
GenerateFailed(p) ==
  /\ call[p].op = "generate"
  /\ call[p].pc = "done"
  /\ ~call[p].result.success

\* the confirmed weighbills under the filters that have no obligation in bal
MissingObligations(bal, cn, d, wid) ==
  {w \in WbIds : /\ weighbills[w].confirmed
                 /\ MatchesFilter(w, cn, d, wid)
                 /\ ObligationsOf(bal, w) = {}}

\* C20: when the store fails part-way through a generate batch, the rows
\* inserted before the failure stay; each of them is a valid obligation, and a
\* later re-run creates exactly the missing obligations and duplicates none.
C20_PartialBatchStaysValid ==
  \A p \in Procs :
    GenerateFailed(p) =>
      /\ \A k \in DOMAIN call[p].generated :
           LET g == call[p].generated[k]
           IN  /\ g.balance_id \in DOMAIN balances
               /\ IsFreshObligation(balances[g.balance_id], g.weighbill_id)
               /\ ObligationsOf(balances, g.weighbill_id) = {g.balance_id}
      /\ \A cn \in Contracts \cup {NoFilter}, d \in 0..4, wid \in 0..NumWB, ord \in TieBreaks :
           LET r == GenerateRun(balances, weighbills,
                                GenerateSelect(weighbills, balances, cn, d, wid, ord))
           IN  /\ r.c.result.success
               /\ SubSeq(r.bal, 1, Len(balances)) = balances
               /\ {r.c.generated[k].weighbill_id : k \in DOMAIN r.c.generated}
                    = MissingObligations(balances, cn, d, wid)
               /\ Len(r.bal) = Len(balances)
                    + Cardinality(MissingObligations(balances, cn, d, wid))
               /\ \A w \in WbIds : Cardinality(ObligationsOf(r.bal, w)) <= 1

\* C20 as stated: a generate batch that failed has created no obligation
C20_FailedBatchCreatesNothing ==
  \A p \in Procs : GenerateFailed(p) => call[p].generated = <<>>

\* a batch of at least two rows failed after its first INSERT: that row is in
\* the table, the next record of the batch has no obligation
C20_Witness ==
  /\ GenerateFailed(1)
  /\ call[1].result.error = ErrStore
  /\ Len(call[1].generated) = 1
  /\ Len(call[1].rows) >= 2
  /\ ObligationsOf(balances, call[1].rows[1]) = {call[1].generated[1].balance_id}
  /\ ObligationsOf(balances, call[1].rows[2]) = {}
  /\ call[2].pc = "idle"

\* C21: paid_amount of every obligation is monotonically non-decreasing: no
\* step of a settlement call, in any sequence or interleaving of explicit and
\* automatic calls, lowers an obligation's paid_amount.
C21_PaidNeverDecreases ==
  [][\A b \in DOMAIN balances :
       b \in DOMAIN balances' => balances'[b].paid_amount >= balances[b].paid_amount]_vars

\* the pairs of items whose obligation exists, in the order given
ExistingPairs(items) ==
  LET Exists(it) == it.balance_id \in DOMAIN balances
  IN  SelectSeq(items, Exists)

\* a pair naming a missing obligation is skipped with no write and the other
\* pairs are processed in the order given
SkipsMissingPairs ==
  \A rid \in OpenReceipts(DB), items \in NumericItemLists :
    LET r == VerifyPayment(DB, rid, items)
        e == VerifyPayment(DB, rid, ExistingPairs(items))
    IN  /\ r.db = e.db
        /\ r.c.result = e.c.result
        /\ r.c.settled_items = e.c.settled_items

\* C22: in explicit settlement a pair whose obligation does not exist is
\* skipped with no write and the remaining pairs are processed in the order
\* given; a call whose pair list is empty or names only missing obligations
\* is an error that leaves the receipt's status and all other state unchanged.
C22_SkipMissingOrReject ==
  CallsLeft =>
    /\ SkipsMissingPairs
    /\ \A rid \in OpenReceipts(DB), items \in NumericItemLists :
         ExistingPairs(items) = <<>> =>
           LET r == VerifyPayment(DB, rid, items)
           IN  ~r.c.result.success /\ r.db = DB

\* the columns of obligation b that no settlement statement writes are in
\* table bal what they are now
SameCreationValues(bal, b) ==
  /\ b \in DOMAIN bal
  /\ bal[b].payable_amount = balances[b].payable_amount
  /\ bal[b].weighbill_id = balances[b].weighbill_id
  /\ bal[b].driver_name = balances[b].driver_name
  /\ bal[b].driver_phone = balances[b].driver_phone
  /\ bal[b].created_at = balances[b].created_at

\* store d differs from the present one only in what a settlement call on
\* receipt rid may write: paid_amount, balance_amount and status of the
\* obligations in S, the status of receipt rid and the links of rid to S
SettlementFrame(d, rid, S) ==
  /\ DOMAIN d.bal = DOMAIN balances
  /\ DOMAIN d.rcp = DOMAIN receipts
  /\ \A b \in DOMAIN balances :
       /\ SameCreationValues(d.bal, b)
       /\ b \notin S => d.bal[b] = balances[b]
  /\ \A x \in DOMAIN receipts :
       /\ d.rcp[x].amount = receipts[x].amount
       /\ d.rcp[x].is_manual_corrected = receipts[x].is_manual_corrected
       /\ x # rid => d.rcp[x] = receipts[x]
  /\ \A x \in ReceiptIds, b \in BalanceIds :
       x # rid \/ b \notin S => LinkAmounts(d.lnk, x, b) = LinkAmounts(links, x, b)

\* the obligations of payee n under the phone filter ph
ObligationsOfPayee(n, ph) ==
  {b \in DOMAIN balances :
     balances[b].driver_name = n /\ ph \in {NoFilter, balances[b].driver_phone}}

\* C23: settlement changes only paid_amount, balance_amount and status of
\* obligations, the status of the receipt, and settlement links:
\* payable_amount of every obligation and amount of every receipt keep their
\* creation values in every reachable state, and the obligations an explicit
\* call does not name or that do not belong to the payee of an automatic call
\* are left unchanged.
C23_SettlementFrame ==
  /\ [](CallsLeft =>
          /\ \A rid \in ReceiptIds, items \in NumericItemLists :
               SettlementFrame(VerifyPayment(DB, rid, items).db, rid,
                               {items[k].balance_id : k \in DOMAIN items})
          /\ \A n \in Names, rid \in ReceiptIds, ph \in PhoneFilters, tb \in TieBreaks :
               SettlementFrame(BatchVerifyByPayee(DB, n, rid, ph, tb).db, rid,
                               ObligationsOfPayee(n, ph)))
  /\ [][/\ \A b \in DOMAIN balances : SameCreationValues(balances', b)
        /\ \A x \in DOMAIN receipts :
             x \in DOMAIN receipts' /\ receipts'[x].amount = receipts[x].amount]_vars

\* an explicit call has settled one obligation in full with one receipt; the
\* other obligation and the other receipt are as they were created
C23_Witness ==
  /\ ncalls = 1
  /\ call[1].pc = "done" /\ call[1].op = "verify" /\ call[1].result.success
  /\ call[1].result.total_settled > 0
  /\ Len(balances) = 2 /\ Len(receipts) = 2
  /\ balances[1].paid_amount = balances[1].payable_amount
  /\ balances[1].payment_status = PAY_STATUS_SETTLED
  /\ LinkAmounts(links, 1, 1) = {balances[1].paid_amount}
  /\ balances[2].paid_amount = 0
  /\ balances[2].balance_amount = balances[2].payable_amount
  /\ balances[2].payment_status = PAY_STATUS_PENDING
  /\ receipts[1].ocr_status = OCR_STATUS_VERIFIED
  /\ receipts[2].ocr_status = OCR_STATUS_PENDING
  /\ \A b \in BalanceIds : LinkAmounts(links, 2, b) = {}

(* -------------------------- receipt intake ---------------------------- *)
\* the amount, fee and total_amount of a receipt request
ReceiptData ==
  [amount : ReceiptAmounts, fee : {None, 0, Scale}, total_amount : {None, 0, 2 * Scale}]

\* Receipts with fee and total recorded before and after settlement calls on
\* a ledger whose weighbills are all confirmed.
NextIntake ==
  \/ ncalls = 0 /\ balances = <<>> /\ GenerateBalanceDetails(NoFilter, 0, 0)
  \/ \E data \in ReceiptData, m \in BOOLEAN : CreatePaymentReceiptRequest(data, m)
  \/ \E rid \in ReceiptIds, items \in ItemLists(BalanceIds, WholeAmounts, 1) :
       VerifyPaymentSeq(rid, items, MaxCalls)
  \/ \E rid \in ReceiptIds, tb \in TieBreaks :
       BatchVerifySeq("zhang", rid, NoFilter, tb, MaxCalls)

SpecIntake == InitConc /\ [][NextIntake]_vars

OldIds == 1..(NumWB + MaxOld)

InitMatch ==
  /\ weighbills = [w \in OldIds |-> [confirmed |-> TRUE, net_weight |-> MaxWeight]]
  /\ balances \in {[i \in 1..k |-> NewBalanceRow(weighbills, NumWB + i, 1)] :
                     k \in (MaxOld - 1)..MaxOld}
  /\ receipts = <<>>
  /\ links = EmptyBag
  /\ call = [p \in Procs |-> Idle]
  /\ ncalls = 0
  /\ payment_details = [rows |-> <<>>, auto_increment |-> 1]
  /\ payment_records = <<>>

MatchAmounts == {0, MaxPayable - 1, MaxPayable + Scale + 1}

NextMatch ==
  \/ ncalls = 0 /\ Len(balances) <= MaxOld /\ GenerateBalanceDetails(NoFilter, 0, 0)
  \/ \E a \in WholeAmounts, m \in BOOLEAN : CreatePaymentReceipt(a, m)
  \/ \E rid \in ReceiptIds, items \in ItemLists(OldIds, WholeAmounts, 1) :
       VerifyPaymentSeq(rid, items, MaxSeqCalls)
  \/ \E n \in Names \cup {""}, a \in MatchAmounts, now \in 2..3, dr \in {0, 7},
        tie \in {"asc", "desc"} : MatchPendingCall(n, a, now, dr, tie)

SpecMatch == InitMatch /\ [][NextMatch]_vars

\* C25: generation, receipt intake and matching never change paid_amount,
\* balance_amount or status of an existing obligation, the status of an
\* existing receipt, or any link (only the settlement calls, the steps that
\* count in ncalls, do); matching returns at most 10 obligations, all PENDING
\* or PARTIAL with payable_amount within 0.01 of the target.
C25_OnlySettlementWrites ==
  /\ [][ncalls' = ncalls =>
          /\ SubSeq(balances', 1, Len(balances)) = balances
          /\ SubSeq(receipts', 1, Len(receipts)) = receipts
          /\ links' = links]_vars
  /\ [](\A n \in Names \cup {""}, a \in MatchAmounts, now \in 2..3, dr \in {0, 7},
           tie \in {"asc", "desc"} :
          LET res == MatchPendingPayments(balances, n, a, now, dr, tie)
          IN  /\ Len(res) <= 10
              /\ \A k \in DOMAIN res :
                   /\ res[k] \in DOMAIN balances
                   /\ balances[res[k]].payment_status
                        \in {PAY_STATUS_PENDING, PAY_STATUS_PARTIAL}
                   /\ balances[res[k]].payable_amount - a <= Scale
                   /\ a - balances[res[k]].payable_amount <= Scale
                   /\ \A j \in DOMAIN res : res[j] = res[k] => j = k)

\* a match over a ledger of more than 10 open obligations returned 10 of
\* them; a SETTLED obligation of the same payable is not among them
C25_Witness ==
  /\ call[2].op = "match"
  /\ Len(call[2].rows) = 10
  /\ Cardinality({b \in DOMAIN balances :
                    balances[b].payment_status # PAY_STATUS_SETTLED}) > 10
  /\ \E b \in DOMAIN balances :
       /\ balances[b].payment_status = PAY_STATUS_SETTLED
       /\ \A k \in DOMAIN call[2].rows : call[2].rows[k] # b
       /\ \E k \in DOMAIN call[2].rows :
            balances[call[2].rows[k]].payable_amount = balances[b].payable_amount
  /\ Len(receipts) = 2

\* C26: the value of a receipt is never over-applied: in every reachable
\* state the settled_amount of the links of a receipt add up to at most the
\* receipt's amount.
C26_ReceiptNotOverApplied ==
  \A rid \in DOMAIN receipts : ReceiptLinkedSum(links, rid) <= receipts[rid].amount

\* C27: receipt SETTLED is terminal: once a receipt's status is SETTLED it
\* is SETTLED in every later state, for every interleaving of settlement
\* calls.
C27_SettledReceiptStaysSettled ==
  [][\A rid \in DOMAIN receipts :
       receipts[rid].ocr_status = OCR_STATUS_VERIFIED
         => /\ rid \in DOMAIN receipts'
            /\ receipts'[rid].ocr_status = OCR_STATUS_VERIFIED]_vars

\* C28: obligation status only moves forward: it changes only PENDING ->
\* PARTIAL, PENDING -> SETTLED or PARTIAL -> SETTLED; a SETTLED obligation
\* stays SETTLED and a PARTIAL one never returns to PENDING.
C28_StatusMovesForward ==
  [][\A b \in DOMAIN balances :
       /\ b \in DOMAIN balances'
       /\ balances'[b].payment_status >= balances[b].payment_status]_vars

\* C29: an explicit pair that targets an obligation which is already
\* SETTLED is a no-op: the obligation's amounts and status are unchanged, no
\* new link is created, and an existing link of the pair keeps its
\* settled_amount.
C29_SettledPairIsNoOp ==
  CallsLeft =>
  \A rid \in OpenReceipts(DB), b \in DOMAIN balances, a \in WholeAmounts :
    balances[b].payment_status = PAY_STATUS_SETTLED =>
      LET r == VerifyPayment(DB, rid, <<[balance_id |-> b, amount |-> a]>>)
      IN  /\ r.db.bal = balances
          /\ LinkAmounts(r.db.lnk, rid, b) = LinkAmounts(links, rid, b)

\* the store with receipt rid moved to CONFIRMED and nothing else changed
AsConfirmed(db, rid) ==
  [db EXCEPT !.rcp = UpdateReceipt(db.rcp, rid, OCR_STATUS_CONFIRMED)]

\* two runs of a call end with the same return value, obligations and links,
\* and, when the call succeeded, the same receipts
SameOutcome(r1, r2) ==
  /\ r1.c.result = r2.c.result
  /\ r1.db.bal = r2.db.bal
  /\ r1.db.lnk = r2.db.lnk
  /\ r1.c.result.success => r1.db.rcp = r2.db.rcp

\* C30: settlement does not gate on confirmation: verify_payment and
\* batch_verify_by_payee treat a receipt in PENDING_CONFIRMATION exactly as
\* the same receipt in CONFIRMED, and after a successful settlement call the
\* receipt is CONFIRMED or SETTLED, never PENDING_CONFIRMATION.
C30_NoConfirmationGate ==
  CallsLeft =>
  \A rid \in DOMAIN receipts :
    /\ \A items \in PositiveItemLists :
         LET r == VerifyPayment(DB, rid, items)
         IN  /\ r.c.result.success =>
                  r.db.rcp[rid].ocr_status \in {OCR_STATUS_CONFIRMED, OCR_STATUS_VERIFIED}
             /\ receipts[rid].ocr_status = OCR_STATUS_PENDING =>
                  SameOutcome(r, VerifyPayment(AsConfirmed(DB, rid), rid, items))
    /\ \A n \in Names, ph \in PhoneFilters, tb \in TieBreaks :
         LET r == BatchVerifyByPayee(DB, n, rid, ph, tb)
         IN  /\ r.c.result.success =>
                  r.db.rcp[rid].ocr_status \in {OCR_STATUS_CONFIRMED, OCR_STATUS_VERIFIED}
             /\ receipts[rid].ocr_status = OCR_STATUS_PENDING =>
                  SameOutcome(r, BatchVerifyByPayee(AsConfirmed(DB, rid), n, rid, ph, tb))

\* a receipt that was never confirmed has been settled in part by an explicit
\* call and is CONFIRMED now
C30_Witness ==
  /\ ncalls = 1
  /\ call[1].pc = "done" /\ call[1].op = "verify" /\ call[1].result.success
  /\ call[1].result.total_settled > 0
  /\ \E rid \in DOMAIN receipts :
       /\ receipts[rid].is_manual_corrected = 0
       /\ receipts[rid].ocr_status = OCR_STATUS_CONFIRMED
       /\ LinksOfReceipt(links, rid) # {}

\* C31: the three status computations agree: for every payable >= 0 and every
\* paid value, recalculate_balance, verify_payment and batch_verify_by_payee
\* assign the same obligation status, including payable = 0 with paid = 0 and
\* paid = payable.  Checked at the payable of every obligation of the ledger
\* and every paid value from 0 to that payable.
C31_StatusRulesAgree ==
  \A b \in DOMAIN balances :
    \A paid \in 0..balances[b].payable_amount :
      /\ RecalculateStatus(balances[b].payable_amount, paid)
           = VerifyNewStatus(balances[b].payable_amount, paid)
      /\ VerifyNewStatus(balances[b].payable_amount, paid)
           = BatchNewStatus(balances[b].payable_amount, paid)

(* ------------------- termination of settlement calls ------------------ *)
\* the next statement of the settlement call process p is in, whichever it is
ProcStep(p) ==
  \/ VerifySelectStep(p)
  \/ VerifyUpdateStep(p)
  \/ VerifyLinkStep(p)
  \/ VerifyFinishStep(p)
  \/ \E tb \in TieBreaks : BatchSelectStep(p, tb)
  \/ BatchUpdateStep(p)
  \/ BatchLinkStep(p)
  \/ BatchFinishStep(p)

\* Two request handlers settle one receipt with item lists of up to MaxItems
\* obligations in any order, statement by statement.
NextLive ==
  \/ ncalls = 0 /\ GenerateBalanceDetails(NoFilter, 0, 0)
  \/ ncalls = 0 /\ receipts = <<>> /\ CreatePaymentReceipt(MaxPayable, TRUE)
  \/ \E p \in Procs, rid \in ReceiptIds, items \in ItemLists(1..MaxItems, {Scale}, MaxItems) :
       VerifyPaymentCall(p, rid, items)
  \/ \E p \in Procs, rid \in ReceiptIds : BatchVerifyCall(p, "zhang", rid, NoFilter)
  \/ \E p \in Procs : ProcStep(p)

\* a handler that has a statement to run runs it: each request is served by
\* its own thread of blocking calls
SpecLive == InitConc /\ [][NextLive]_vars /\ \A p \in Procs : WF_vars(ProcStep(p))

\* the call of process p has been entered and has not returned
InFlight(p) == call[p].pc \notin {"idle", "done"}

\* the call of process p has returned a success or an error result
Returned(p) ==
  /\ call[p].pc = "done"
  /\ call[p].result.success \/ call[p].result.error # ""

\* C32: every settlement call terminates with a success or an error result
\* under every interleaving with other settlement calls on the same receipt
\* and obligations; concurrent calls never deadlock, whatever order the
\* obligations are listed in.
C32_CallsTerminate == \A p \in Procs : InFlight(p) ~> Returned(p)

\* two explicit calls on the same receipt, listing the same two obligations
\* in opposite orders, have each finished with their first obligation
C32_Witness ==
  /\ call[1].op = "verify" /\ call[2].op = "verify"
  /\ InFlight(1) /\ InFlight(2)
  /\ call[1].receipt_id = call[2].receipt_id
  /\ Len(call[1].balance_items) = 2 /\ Len(call[2].balance_items) = 2
  /\ call[1].balance_items[1].balance_id = call[2].balance_items[2].balance_id
  /\ call[1].balance_items[2].balance_id = call[2].balance_items[1].balance_id
  /\ call[1].balance_items[1].balance_id # call[1].balance_items[2].balance_id
  /\ call[1].i = 2 /\ call[2].i = 2

(* ------------- PaymentService (smelter payment ledger) ---------------- *)
\* payment details and payment records a run creates at most
MaxDetails == 2
MaxRecords == 3

\* PaymentStatus
UNPAID == 0
PARTIAL == 1
PAID == 2
OVERPAID == 3

ErrInvalidOrderId == "sales order id is invalid"
ErrInvalidPrice == "unit price is invalid"
ErrInvalidWeight == "net weight is invalid"
ErrDetailExists == "the sales order already has a payment detail"
ErrInvalidDetailId == "payment detail id is invalid"
ErrInvalidPayment == "payment amount must be greater than 0"
ErrDetailNotFound == "payment detail not found"
ErrAlreadyPaid == "the order is paid up, no further payment can be recorded"
ErrHasPayments == "a detail with payments cannot be deleted"
ErrHasRecords == "payment records exist, the detail cannot be deleted"

\* amount.quantize(Decimal('0.01'), rounding=ROUND_HALF_UP) of an amount >= 0
CalculatePaymentAmount(unit_price, net_weight) ==
  ((2 * unit_price * net_weight + Scale) \div (2 * Scale)) * Scale

\* variant: a payment above the total still counts as PAID
DeterminePaymentStatusNoOverpaid(total_amount, paid_amount) ==
  IF paid_amount <= 0 THEN UNPAID
  ELSE IF paid_amount >= total_amount THEN PAID
  ELSE PARTIAL

\* determine_payment_status
DeterminePaymentStatus(total_amount, paid_amount) ==
  IF paid_amount <= 0 THEN UNPAID
  ELSE IF paid_amount >= total_amount
       THEN IF paid_amount > total_amount THEN OVERPAID ELSE PAID
  ELSE PARTIAL

\* the two tables: pd_payment_details with its AUTO_INCREMENT counter, and
\* pd_payment_records
PayDB == [details |-> payment_details, records |-> payment_records]

\* a call that raised: nothing written
Raise(pdb, e) == [db |-> pdb, ok |-> FALSE, error |-> e]
\* a call that returned
Done(pdb) == [db |-> pdb, ok |-> TRUE, error |-> ""]

\* the payment records of detail id: SELECT ... WHERE payment_detail_id = %s
RecordsOf(records, id) ==
  {k \in DOMAIN records : records[k].payment_detail_id = id}

RECURSIVE RecordSum(_, _)
\* sum of payment_amount over the records at positions S
RecordSum(records, S) ==
  IF S = {} THEN 0
  ELSE LET k == CHOOSE x \in S : TRUE
       IN  records[k].payment_amount + RecordSum(records, S \ {k})

\* create_payment_detail(sales_order_id, ..., unit_price, net_weight)
CreatePaymentDetailOn(pdb, sales_order_id, unit_price, net_weight) ==
  LET rows == pdb.details.rows
      total_amount == CalculatePaymentAmount(unit_price, net_weight)
      payment_id == pdb.details.auto_increment
  IN  IF sales_order_id <= 0 THEN Raise(pdb, ErrInvalidOrderId)
      ELSE IF unit_price < 0 THEN Raise(pdb, ErrInvalidPrice)
      ELSE IF net_weight < 0 THEN Raise(pdb, ErrInvalidWeight)
      ELSE IF \E id \in DOMAIN rows : /\ rows[id].sales_order_id = sales_order_id
                                      /\ rows[id].status # OVERPAID
           THEN Raise(pdb, ErrDetailExists)
      ELSE Done([pdb EXCEPT
             !.details = [rows |-> [id \in DOMAIN rows \cup {payment_id} |->
                                      IF id = payment_id
                                      THEN [sales_order_id |-> sales_order_id,
                                            total_amount |-> StoreDecimal(total_amount),
                                            paid_amount |-> 0,
                                            unpaid_amount |-> StoreDecimal(total_amount),
                                            status |-> UNPAID]
                                      ELSE rows[id]],
                          auto_increment |-> payment_id + 1]])

\* variant: a PAID detail accepts further payments
RecordPaymentAlways(pdb, payment_detail_id, payment_amount) ==
  LET rows == pdb.details.rows
  IN  IF payment_detail_id <= 0 THEN Raise(pdb, ErrInvalidDetailId)
      ELSE IF payment_amount = None \/ payment_amount <= 0 THEN Raise(pdb, ErrInvalidPayment)
      ELSE IF payment_detail_id \notin DOMAIN rows THEN Raise(pdb, ErrDetailNotFound)
      ELSE LET detail == rows[payment_detail_id]
               new_paid == detail.paid_amount + payment_amount
               unpaid_amount == detail.total_amount - new_paid
               new_status == DeterminePaymentStatus(detail.total_amount, new_paid)
           IN  Done([details |-> [pdb.details EXCEPT !.rows[payment_detail_id] =
                                    [detail EXCEPT !.paid_amount = StoreDecimal(new_paid),
                                                   !.unpaid_amount = StoreDecimal(unpaid_amount),
                                                   !.status = new_status]],
                     records |-> Append(pdb.records,
                                   [payment_detail_id |-> payment_detail_id,
                                    payment_amount |-> StoreDecimal(payment_amount)])])

\* record_payment(payment_detail_id, payment_amount, ...)
RecordPaymentOn(pdb, payment_detail_id, payment_amount) ==
  LET rows == pdb.details.rows
  IN  IF payment_detail_id <= 0 THEN Raise(pdb, ErrInvalidDetailId)
      ELSE IF payment_amount = None \/ payment_amount <= 0 THEN Raise(pdb, ErrInvalidPayment)
      ELSE IF payment_detail_id \notin DOMAIN rows THEN Raise(pdb, ErrDetailNotFound)
      ELSE IF rows[payment_detail_id].status = PAID THEN Raise(pdb, ErrAlreadyPaid)
      ELSE LET detail == rows[payment_detail_id]
               new_paid == detail.paid_amount + payment_amount
               unpaid_amount == detail.total_amount - new_paid
               new_status == DeterminePaymentStatus(detail.total_amount, new_paid)
           IN  Done([details |-> [pdb.details EXCEPT !.rows[payment_detail_id] =
                                    [detail EXCEPT !.paid_amount = StoreDecimal(new_paid),
                                                   !.unpaid_amount = StoreDecimal(unpaid_amount),
                                                   !.status = new_status]],
                     records |-> Append(pdb.records,
                                   [payment_detail_id |-> payment_detail_id,
                                    payment_amount |-> StoreDecimal(payment_amount)])])

\* variant: every existing detail can be deleted
DeletePaymentDetailAlways(pdb, payment_id) ==
  LET rows == pdb.details.rows
  IN  IF payment_id \notin DOMAIN rows THEN Raise(pdb, ErrDetailNotFound)
      ELSE Done([pdb EXCEPT !.details.rows = [id \in DOMAIN rows \ {payment_id} |-> rows[id]]])

\* delete_payment_detail(payment_id)
DeletePaymentDetailOn(pdb, payment_id) ==
  LET rows == pdb.details.rows
  IN  IF payment_id \notin DOMAIN rows THEN Raise(pdb, ErrDetailNotFound)
      ELSE IF rows[payment_id].paid_amount > 0 \/ rows[payment_id].status # UNPAID
           THEN Raise(pdb, ErrHasPayments)
      ELSE IF Cardinality(RecordsOf(pdb.records, payment_id)) > 0
           THEN Raise(pdb, ErrHasRecords)
      ELSE Done([pdb EXCEPT !.details.rows = [id \in DOMAIN rows \ {payment_id} |-> rows[id]]])

SetPayDB(pdb) ==
  /\ payment_details' = pdb.details
  /\ payment_records' = pdb.records
  /\ UNCHANGED <<weighbills, balances, receipts, links, call, ncalls>>

\* one call of each service method, run from entry to return
CreatePaymentDetail(sales_order_id, unit_price, net_weight) ==
  /\ payment_details.auto_increment <= MaxDetails
  /\ SetPayDB(CreatePaymentDetailOn(PayDB, sales_order_id, unit_price, net_weight).db)

RecordPayment(payment_detail_id, payment_amount) ==
  /\ Len(payment_records) < MaxRecords
  /\ SetPayDB(RecordPaymentOn(PayDB, payment_detail_id, payment_amount).db)

DeletePaymentDetail(payment_id) ==
  /\ payment_id \in DOMAIN payment_details.rows
  /\ SetPayDB(DeletePaymentDetailOn(PayDB, payment_id).db)

\* inputs of the payment calls: two sales orders, prices and weights whose
\* product is 0, below, at and above a whole minor unit, payments that are
\* invalid, below a minor unit, and one or two minor units
SalesOrders == 0..2
UnitPrices == {1, Scale}
NetWeights == 0..2
DetailIds == 0..MaxDetails
PaymentAmounts == {None, 0 - Scale, 0, 1, Scale, 2 * Scale}

\* the payment tables are empty; the settlement ledger is not used
InitPay ==
  /\ weighbills = [w \in WbIds |-> [confirmed |-> FALSE, net_weight |-> 0]]
  /\ balances = <<>>
  /\ receipts = <<>>
  /\ links = EmptyBag
  /\ call = [p \in Procs |-> Idle]
  /\ ncalls = 0
  /\ payment_details = [rows |-> <<>>, auto_increment |-> 1]
  /\ payment_records = <<>>

NextPay ==
  \/ \E so \in SalesOrders, up \in UnitPrices, nw \in NetWeights :
       CreatePaymentDetail(so, up, nw)
  \/ \E id \in DetailIds, a \in PaymentAmounts : RecordPayment(id, a)
  \/ \E id \in DetailIds : DeletePaymentDetail(id)

SpecPay == InitPay /\ [][NextPay]_vars

AnyDetailIds == DetailIds \cup {MaxDetails + 2}

\* C34: record_payment on a detail whose status is PAID, on a missing detail
\* or with an amount <= 0 raises and leaves the details and the payment
\* records unchanged; a PAID detail stays PAID under every call; a detail
\* that is OVERPAID still accepts a payment.
C34_RecordPaymentRejects ==
  LET rows == payment_details.rows
  IN  /\ \A id \in AnyDetailIds, a \in PaymentAmounts :
           LET r == RecordPaymentOn(PayDB, id, a)
           IN  /\ (id \notin DOMAIN rows \/ a = None \/ a <= 0) => ~r.ok /\ r.db = PayDB
               /\ (id \in DOMAIN rows /\ rows[id].status = PAID) => ~r.ok /\ r.db = PayDB
               /\ (id \in DOMAIN rows /\ rows[id].status = OVERPAID /\ a # None /\ a > 0) =>
                    /\ r.ok
                    /\ Len(r.db.records) = Len(payment_records) + 1
                    /\ r.db.details.rows[id].status = OVERPAID
      /\ \A id \in DOMAIN rows :
           rows[id].status = PAID =>
             /\ \A other \in AnyDetailIds, a \in PaymentAmounts :
                  RecordPaymentOn(PayDB, other, a).db.details.rows[id] = rows[id]
             /\ \A other \in AnyDetailIds :
                  LET d == DeletePaymentDetailOn(PayDB, other).db.details.rows
                  IN  id \in DOMAIN d /\ d[id] = rows[id]
             /\ \A so \in SalesOrders, up \in UnitPrices, nw \in NetWeights :
                  CreatePaymentDetailOn(PayDB, so, up, nw).db.details.rows[id] = rows[id]

\* one detail is PAID by a single payment of its total, another was OVERPAID
\* by its first payment and has taken a second one
C34_Witness ==
  \E p, o \in DOMAIN payment_details.rows :
    /\ payment_details.rows[p].status = PAID
    /\ Cardinality(RecordsOf(payment_records, p)) = 1
    /\ payment_details.rows[o].status = OVERPAID
    /\ Cardinality(RecordsOf(payment_records, o)) = 2
    /\ \E k \in RecordsOf(payment_records, o) :
         payment_records[k].payment_amount > payment_details.rows[o].total_amount

====
